---- MODULE Spec2Model ----
(***************************************************************************)
(* Court discovery / verification pipeline of CheckrCourtMonitoring.       *)
(*                                                                         *)
(* The relational store (inventory_updates, courts, court_sources) is the  *)
(* shared state.  A worker runs update_court_inventory (court_inventory.py)*)
(* or the page pipeline process_court_page + store_discovered_court        *)
(* (court_ai_discovery.py) step by step; initialize_database (the stale    *)
(* run reset of database_init.py) is a separate program that may run at    *)
(* any moment against the same store.                                      *)
(*                                                                         *)
(* Timestamps are integers (one unit = 12 hours), NoTime is SQL NULL for a *)
(* timestamp, "NULL" is SQL NULL / Python None for a text value, and a     *)
(* confidence is an integer number of tenths (7 is 0.7).                   *)
(***************************************************************************)
EXTENDS Integers, Sequences, FiniteSets, TLC

\* ------------------------------------------------------------------ bounds
MaxRuns == 2        \* inventory_updates rows the model creates
MaxCands == 2       \* candidates one page / source yields
MaxTime == 3        \* last value of the clock
NumSources == 2     \* rows of court_sources
MaxFaults == 1      \* store failures (no connection, failed statement) in one behaviour

\* --------------------------------------------------------------- constants
DefaultFrequency == 2   \* INTERVAL '24 hours' in units of 12 hours

NULL == "NULL"
NoTime == 0 - 1
NoId == 0

Procs == {"inventory", "second_inventory", "discovery"}

VARIABLES
    inventory_updates,  \* table inventory_updates: sequence of rows, id = index
    courts,             \* table courts: sequence of rows, id = index
    court_sources,      \* table court_sources: source id -> row
    now,                \* CURRENT_TIMESTAMP
    scenario,           \* what this behaviour exercises (see Scenarios)
    faults,             \* store failures so far
    api_usage,          \* table api_usage: sequence of rows
    scraper_status,     \* table scraper_status: sequence of rows, id = index
    frame               \* per worker: position and local variables

vars == <<inventory_updates, courts, court_sources, now, scenario, faults,
          api_usage, scraper_status, frame>>

\* ------------------------------------------------------------ jurisdictions
SourceIds == 1..NumSources

\* jurisdictions rows as seeded by initialize_jurisdictions: id 1 is the
\* federal root, every other id is a state.
JurisdictionType(j) == IF j = 1 THEN "federal" ELSE "state"

JurisdictionNames ==
    <<"United States", "California", "New York", "Texas", "Florida", "Illinois">>

JurisdictionName(j) == JurisdictionNames[j]

\* the source of each jurisdiction: the fallback federal site and the
\* state_courts list of initialize_court_sources
SourceUrls ==
    <<"https://www.uscourts.gov", "https://www.courts.ca.gov",
      "https://www.nycourts.gov", "https://www.txcourts.gov",
      "https://www.flcourts.org", "https://www.illinoiscourts.gov">>

\* ------------------------------------------------------------------ helpers
Terminal == {"completed", "error"}

\* all orderings of a finite set (a SELECT without ORDER BY)
RECURSIVE Orderings(_)
Orderings(S) ==
    IF S = {} THEN {<<>>}
    ELSE UNION {{<<x>> \o t : t \in Orderings(S \ {x})} : x \in S}

\* ---------------------------------------------------------- run tracker
\* INSERT INTO inventory_updates (started_at, status, stage) VALUES (...)
NewRunRow ==
    [started_at |-> now, completed_at |-> NoTime, end_time |-> NoTime,
     total_sources |-> 0 - 1, sources_processed |-> 0,
     new_courts_found |-> 0, courts_updated |-> 0,
     status |-> "running", message |-> <<>>,
     current_source |-> NULL, next_source |-> NULL,
     stage |-> <<"Starting inventory update">>]

\* detailed_message of update_scraper_status
DetailedMessage(message, sources_processed, total_sources, current_source) ==
    <<message,
      IF total_sources > 0 THEN (sources_processed * 1000) \div total_sources ELSE 0,
      sources_processed, total_sources,
      IF current_source = NULL THEN "Starting..." ELSE current_source>>

\* the UPDATE without its "completed_at = CASE ..." assignment
StatusUpdatedKeepingCompletedAt(row, sources_processed, total_sources, status, message, current_source, next_source, stage) ==
    [row EXCEPT
        !.sources_processed = sources_processed,
        !.total_sources = total_sources,
        !.status = status,
        !.message = DetailedMessage(message, sources_processed, total_sources,
                                    current_source),
        !.current_source = current_source,
        !.next_source = next_source,
        !.stage = stage]

\* The UPDATE of update_scraper_status applied to one row.
StatusUpdatedRow(row, sources_processed, total_sources, status, message, current_source, next_source, stage) ==
    [row EXCEPT
        !.sources_processed = sources_processed,
        !.total_sources = total_sources,
        !.status = status,
        !.message = DetailedMessage(message, sources_processed, total_sources,
                                    current_source),
        !.current_source = current_source,
        !.next_source = next_source,
        !.stage = stage,
        !.completed_at = IF status \in {"completed", "error"} THEN now ELSE NoTime]

\* update_scraper_status whose UPDATE does not assign sources_processed
update_scraper_status_keeping_progress(table, update_id, sources_processed, total_sources, status, message, current_source, next_source, stage, ok) ==
    IF ok /\ update_id \in DOMAIN table
    THEN [table EXCEPT ![update_id] =
            [StatusUpdatedRow(@, sources_processed, total_sources, status,
                              message, current_source, next_source, stage)
                EXCEPT !.sources_processed = table[update_id].sources_processed]]
    ELSE table

\* update_scraper_status: ok = FALSE is "no connection" or a store error
\* (rolled back); an unknown id updates nothing.
update_scraper_status(table, update_id, sources_processed, total_sources, status, message, current_source, next_source, stage, ok) ==
    IF ok /\ update_id \in DOMAIN table
    THEN [table EXCEPT ![update_id] =
            StatusUpdatedRow(@, sources_processed, total_sources, status,
                             message, current_source, next_source, stage)]
    ELSE table

\* the reset without its WHERE status = 'running'
ResetEveryRow(row) ==
    [row EXCEPT !.status = "error", !.completed_at = now,
                !.end_time = now, !.message = <<"Reset stalled update">>]

\* "Reset any stalled updates" of initialize_database applied to one row.
ResetStalledRow(row) ==
    IF row.status = "running"
    THEN [row EXCEPT !.status = "error", !.completed_at = now,
                     !.end_time = now, !.message = <<"Reset stalled update">>]
    ELSE row

\* ------------------------------------------------------------ source registry
\* WHERE cs.is_active = true AND (j.type = court_type) AND
\*   (last_checked IS NULL OR last_checked < CURRENT_TIMESTAMP - COALESCE(freq, 24h))
\* the due test without "cs.is_active = true"
IsDueWhetherActiveOrNot(s, court_type) ==
    LET cs == court_sources[s] IN
    /\ court_type = "all" \/ JurisdictionType(cs.jurisdiction_id) = court_type
    /\ \/ cs.last_checked = NoTime
       \/ cs.last_checked <
            now - (IF cs.update_frequency = NoTime THEN DefaultFrequency
                   ELSE cs.update_frequency)

IsDue(s, court_type) ==
    LET cs == court_sources[s] IN
    /\ cs.is_active
    /\ court_type = "all" \/ JurisdictionType(cs.jurisdiction_id) = court_type
    /\ \/ cs.last_checked = NoTime
       \/ cs.last_checked <
            now - (IF cs.update_frequency = NoTime THEN DefaultFrequency
                   ELSE cs.update_frequency)

DueSources(court_type) == {s \in SourceIds : IsDue(s, court_type)}

\* ------------------------------------------------ extraction / verification
NoConfidence == 0 - 1

\* A candidate as discover_courts_from_content returns it (the "courts" array
\* of the extraction response).  The extraction schema has no 'verified' and no
\* 'confidence' key: verified = FALSE / NoConfidence stand for the absent keys.
SeedName == "Supreme Court of the United States"

Candidate(name, url) ==
    [name |-> name, url |-> url, type |-> "Other Courts", status |-> "Open",
     address |-> NULL, jurisdiction |-> NULL, jurisdiction_type |-> NULL,
     contact_info |-> NULL, verified |-> FALSE, confidence |-> NoConfidence,
     message |-> NULL]

\* What the verification call of verify_court_info can produce: the API call
\* raises, the content is not the JSON object asked for, or a result object.
VerifyResult(verified, confidence, type, status, address, contact_info) ==
    [kind |-> "ok", verified |-> verified, confidence |-> confidence,
     type |-> type, status |-> status, address |-> address,
     jurisdiction |-> "Test State", jurisdiction_type |-> "state",
     contact_info |-> contact_info, message |-> "checked"]

ApiError == [kind |-> "api_error"]

MalformedJson == [kind |-> "malformed"]

Accepting == VerifyResult(TRUE, 9, "District Courts", "Open", "123 Main St", "phone")

AcceptingOther == VerifyResult(TRUE, 9, "Courts of Appeals", "Closed", NULL, NULL)

AtThreshold == VerifyResult(TRUE, 7, "District Courts", "Open", "123 Main St", "phone")

Unverified == VerifyResult(FALSE, 9, "District Courts", "Open", "123 Main St", "phone")

NoStatus == VerifyResult(TRUE, 9, "District Courts", NULL, "123 Main St", "phone")

ExampleCourt == Candidate("Example District Court", "https://example.gov/district")

SeedCandidate == Candidate(SeedName, NULL)

Nameless == Candidate(NULL, NULL)

\* the (candidate, verification response) pairs a page can yield
FullInputs ==
    {<<ExampleCourt, Accepting>>, <<ExampleCourt, AcceptingOther>>,
     <<ExampleCourt, AtThreshold>>, <<ExampleCourt, Unverified>>,
     <<ExampleCourt, ApiError>>, <<ExampleCourt, MalformedJson>>,
     <<ExampleCourt, NoStatus>>,
     <<SeedCandidate, AcceptingOther>>, <<SeedCandidate, ApiError>>,
     <<Nameless, Accepting>>}

ThinInputs == {<<ExampleCourt, Accepting>>, <<ExampleCourt, ApiError>>}

\* a verification that takes a failed call for a confirmation
verify_court_info_trusting(court_data, response) ==
    IF response.kind = "ok"
    THEN [court_data EXCEPT
            !.verified = response.verified,
            !.confidence = response.confidence,
            !.type = response.type,
            !.status = response.status,
            !.address = response.address,
            !.jurisdiction = response.jurisdiction,
            !.jurisdiction_type = response.jurisdiction_type,
            !.contact_info = response.contact_info,
            !.message = response.message]
    ELSE [court_data EXCEPT !.verified = TRUE]

\* verify_court_info: the candidate updated with the result, or the candidate
\* as it was when the call or the parse of its answer fails.
verify_court_info(court_data, response) ==
    IF response.kind = "ok"
    THEN [court_data EXCEPT
            !.verified = response.verified,
            !.confidence = response.confidence,
            !.type = response.type,
            !.status = response.status,
            !.address = response.address,
            !.jurisdiction = response.jurisdiction,
            !.jurisdiction_type = response.jurisdiction_type,
            !.contact_info = response.contact_info,
            !.message = response.message]
    ELSE court_data

\* the test both pipelines apply to a verified candidate
PassesVerification(verified_court) == verified_court.verified

\* json.dumps(verified_court.get('contact_info', {}))
json_dumps(contact_info) ==
    IF contact_info = NULL THEN "null" ELSE "{\"phone\": \"555-0100\"}"

\* ------------------------------------------------------------- courts table
\* The parameters of the INSERT ... ON CONFLICT of process_court_source.
UpsertParams(verified_court, jurisdiction_id) ==
    [name |-> verified_court.name, type |-> verified_court.type,
     url |-> verified_court.url, jurisdiction_id |-> jurisdiction_id,
     status |-> verified_court.status, address |-> verified_court.address,
     contact_info |-> json_dumps(verified_court.contact_info)]

\* name, type and status are NOT NULL columns (and verified_court['name']
\* raises KeyError when the key is absent).
ViolatesNotNull(params) ==
    params.name = NULL \/ params.type = NULL \/ params.status = NULL

HasName(table, name) == \E k \in DOMAIN table : table[k].name = name

\* the row INSERT creates
InsertedRow(table, params, ts) ==
    [id |-> Len(table) + 1, name |-> params.name, type |-> params.type,
     url |-> params.url, jurisdiction_id |-> params.jurisdiction_id,
     status |-> params.status, lat |-> NULL, lon |-> NULL,
     address |-> params.address, contact_info |-> params.contact_info,
     image_url |-> NULL, last_updated |-> ts]

\* ON CONFLICT (name) DO UPDATE SET ... of process_court_source
ConflictUpdatedRow(row, params, ts) ==
    [row EXCEPT !.type = params.type, !.url = params.url,
                !.status = params.status, !.address = params.address,
                !.contact_info = params.contact_info, !.last_updated = ts]

\* the INSERT without its ON CONFLICT clause and without the unique constraint
InsertAlways(table, params, ts) == Append(table, InsertedRow(table, params, ts))

\* INSERT INTO courts ... ON CONFLICT (name) DO UPDATE ...
UpsertCourt(table, params, ts) ==
    IF HasName(table, params.name)
    THEN [k \in DOMAIN table |->
            IF table[k].name = params.name
            THEN ConflictUpdatedRow(table[k], params, ts) ELSE table[k]]
    ELSE Append(table, InsertedRow(table, params, ts))

\* a commit that makes only the first statement of the transaction durable
ApplyFirstUpsert(table, pending, ts) ==
    IF pending = <<>> THEN table ELSE UpsertCourt(table, Head(pending), ts)

\* the courts table as a transaction with the given pending upserts sees it
RECURSIVE ApplyUpserts(_, _, _)
ApplyUpserts(table, pending, ts) ==
    IF pending = <<>> THEN table
    ELSE ApplyUpserts(UpsertCourt(table, Head(pending), ts), Tail(pending), ts)

\* ------------------------------------------------------------------- frames
NoResult == [status |-> NULL]

ErrorResult(message) == [status |-> "error", message |-> <<message>>]

CompletedResult(total_sources, new_courts, updated_courts, court_type, message) ==
    [status |-> "completed", total_sources |-> total_sources,
     new_courts |-> new_courts, updated_courts |-> updated_courts,
     court_type |-> court_type, message |-> message]

IdleFrame ==
    [pc |-> "idle", court_type |-> "all", update_id |-> NoId,
     sources |-> <<>>, i |-> 0, total_sources |-> 0,
     total_new_courts |-> 0, total_updated_courts |-> 0,
     result |-> NoResult, returned |-> <<0, 0>>,
     source_id |-> NoId, pending |-> <<>>,
     new_courts |-> 0, updated_courts |-> 0,
     court |-> NoResult, n |-> 0,
     verified_courts |-> <<>>,
     polled |-> <<>>, outcome |-> "none", had_failure |-> FALSE,
     batch |-> <<>>, tx_aborted |-> FALSE,
     operation |-> NULL, held |-> 0, releases |-> 0, unreleased |-> 0, calls |-> 0,
     attempt |-> 0, fetch_log |-> <<>>, delays |-> <<>>,
     elapsed |-> 0, exit_code |-> NoTime,
     run_id |-> NoId, scraper_run_id |-> NoId, rows_before |-> 0,
     total_courts |-> 0, courts_processed |-> 0, courts_data |-> 0,
     input |-> NoResult, output |-> NoResult]

CourtTypeArgs ==
    IF scenario = "pages" THEN {"all", "federal"}
    ELSE IF scenario = "due_query" THEN {"all", "federal", "state"}
    ELSE {"all"}

\* a row of the due-source query:
\* (cs.id, cs.jurisdiction_id, cs.source_url, j.type, j.name)
SourceTuple(s) ==
    <<s, court_sources[s].jurisdiction_id, court_sources[s].source_url,
      JurisdictionType(court_sources[s].jurisdiction_id),
      JurisdictionName(court_sources[s].jurisdiction_id)>>

\* ---------------------------------------------------------------- scenarios
\* A behaviour exercises one of:
\*   pages          one inventory run over every kind of page content
\*   faulty_store   one inventory run over plain pages with store failures
\*   restarts       inventory runs with initialize_database run beside them
\*   repeated_runs  inventory runs of all sources as time passes
\*   discovery      the discovery script (process_court_page and
\*                  store_discovered_court)
Scenarios == {"pages", "faulty_store", "restarts", "repeated_runs", "discovery"}

RunLimit ==
    IF scenario \in {"restarts", "repeated_runs", "concurrent_runs"} THEN MaxRuns ELSE 1

CandLimit ==
    IF scenario \in {"restarts", "repeated_runs", "concurrent_runs"} THEN 1 ELSE MaxCands

\* the workers that call update_court_inventory: nothing in the code keeps a
\* second caller (another page session, another script) from calling it
\* while a run is in progress
InventoryWorkers ==
    IF scenario = "concurrent_runs" THEN {"inventory", "second_inventory"}
    ELSE {"inventory"}

Inputs == IF scenario \in {"pages", "discovery"} THEN FullInputs ELSE ThinInputs

\* ------------------------------------------------------------------ Init
InitialSources ==
    [s \in SourceIds |->
        [jurisdiction_id |-> s, source_url |-> SourceUrls[s],
         is_active |-> TRUE, last_checked |-> NoTime,
         last_updated |-> NoTime, update_frequency |-> DefaultFrequency]]

\* the row initialize_base_courts inserts for the Supreme Court
SeedCourt ==
    [id |-> 1, name |-> SeedName, type |-> "Supreme Court",
     url |-> "https://www.supremecourt.gov", jurisdiction_id |-> 1,
     status |-> "Open", lat |-> "38.8897", lon |-> "-77.0044",
     address |-> "1 First Street, NE Washington, DC 20543",
     contact_info |-> NULL,
     image_url |-> "https://images.unsplash.com/photo-1564596489416-23196d12d85c",
     last_updated |-> 0]

Init ==
    /\ inventory_updates = <<>>
    /\ courts = <<SeedCourt>>
    /\ court_sources = InitialSources
    /\ now = 0
    /\ scenario \in Scenarios
    /\ faults = 0
    /\ api_usage = <<>>
    /\ scraper_status = <<>>
    /\ frame = [p \in Procs |-> IdleFrame]

\* ------------------------------------------------------------------ actions
\* whether a store operation succeeds: it may fail while the behaviour has
\* failures left
StoreOutcomes ==
    IF scenario = "faulty_store" /\ faults < MaxFaults THEN {TRUE, FALSE} ELSE {TRUE}

Counted(ok) == faults' = IF ok THEN faults ELSE faults + 1

\* the clock: one unit is 12 hours, an invocation is short against it, so
\* the clock advances between invocations; it reads 0 at the first run
Tick ==
    /\ scenario = "repeated_runs"
    /\ now < MaxTime
    /\ inventory_updates # <<>>
    /\ \A p \in Procs : frame[p].pc = "idle"
    /\ now' = now + 1
    /\ UNCHANGED <<inventory_updates, courts, court_sources, scenario, api_usage, scraper_status, faults, frame>>

\* initialize_database: the schema statements are idempotent; the reset of
\* stalled updates is the only statement that changes rows.
initialize_database ==
    /\ scenario = "restarts"
    /\ inventory_updates' =
         [r \in DOMAIN inventory_updates |-> ResetStalledRow(inventory_updates[r])]
    /\ UNCHANGED <<courts, court_sources, now, scenario, api_usage, scraper_status, faults, frame>>

\* ------------------------------------------------- update_court_inventory
\* update_court_inventory up to the return after initialize_inventory_run;
\* ok = FALSE: initialize_inventory_run got no connection or its INSERT failed.
UCI_Start(p) ==
    /\ p \in InventoryWorkers
    /\ scenario # "discovery"
    /\ frame[p].pc = "idle"
    /\ Len(inventory_updates) < RunLimit
    /\ \E court_type \in CourtTypeArgs, ok \in StoreOutcomes :
        /\ Counted(ok)
        /\ IF ok
           THEN /\ inventory_updates' = Append(inventory_updates, NewRunRow)
                /\ frame' = [frame EXCEPT ![p] =
                       [IdleFrame EXCEPT !.pc = "connect",
                                         !.court_type = court_type,
                                         !.update_id = Len(inventory_updates) + 1]]
           ELSE /\ inventory_updates' = inventory_updates
                /\ frame' = [frame EXCEPT ![p] =
                       [IdleFrame EXCEPT !.pc = "returned",
                                         !.court_type = court_type,
                                         !.result = ErrorResult("Failed to initialize inventory run")]]
    /\ UNCHANGED <<courts, court_sources, now, scenario, api_usage, scraper_status>>

\* conn = get_db_connection(); if not conn: return {'status': 'error', ...}
UCI_Connect(p) ==
    /\ frame[p].pc = "connect"
    /\ \E ok \in StoreOutcomes :
        /\ Counted(ok)
        /\ frame' = [frame EXCEPT ![p] =
            IF ok THEN [@ EXCEPT !.pc = "query"]
            ELSE [@ EXCEPT !.pc = "returned",
                           !.result = ErrorResult("Failed to get database connection")]]
    /\ UNCHANGED <<inventory_updates, courts, court_sources, now, scenario, api_usage, scraper_status>>

\* the due-source query; the early return when nothing is due; the except
\* branch when the query raises (query_ok = FALSE), whose status update may
\* itself fail to reach the store (status_ok = FALSE).
UCI_Query(p) ==
    /\ frame[p].pc = "query"
    /\ \/ \E sources \in Orderings(DueSources(frame[p].court_type)) :
            /\ frame' = [frame EXCEPT ![p] =
                 IF Len(sources) = 0
                 THEN [@ EXCEPT !.pc = "returned",
                                !.result = CompletedResult(0, 0, 0, frame[p].court_type,
                                               <<"No sources found to process">>)]
                 ELSE [@ EXCEPT !.pc = "initial_status",
                                !.sources = [k \in DOMAIN sources |-> SourceTuple(sources[k])],
                                !.total_sources = Len(sources)]]
            /\ UNCHANGED <<inventory_updates, faults>>
       \/ \E status_ok \in (IF faults + 1 < MaxFaults THEN {TRUE, FALSE} ELSE {TRUE}) :
            /\ FALSE \in StoreOutcomes
            /\ faults' = IF status_ok THEN faults + 1 ELSE faults + 2
            /\ inventory_updates' =
                 update_scraper_status(inventory_updates, frame[p].update_id, 0, 0,
                     "error", <<"Error updating court inventory">>, "Error", NULL,
                     <<"Failed">>, status_ok)
            /\ frame' = [frame EXCEPT ![p] =
                 [@ EXCEPT !.pc = "returned",
                           !.result = ErrorResult("Error updating court inventory")]]
    /\ UNCHANGED <<courts, court_sources, now, scenario, api_usage, scraper_status>>

\* "Update initial status"
UCI_InitialStatus(p) ==
    /\ frame[p].pc = "initial_status"
    /\ \E status_ok \in StoreOutcomes :
        /\ Counted(status_ok)
        /\ inventory_updates' =
            update_scraper_status(inventory_updates, frame[p].update_id, 0,
                frame[p].total_sources, "running",
                <<"Processing courts", frame[p].court_type>>, NULL, NULL,
                <<"Starting inventory update">>, status_ok)
    /\ frame' = [frame EXCEPT ![p] = [@ EXCEPT !.pc = "loop"]]
    /\ UNCHANGED <<courts, court_sources, now, scenario, api_usage, scraper_status>>

\* next_source = sources[i-1][4] if i < len(sources) else "Completion"
\* (i counts from 1: Python's sources[i-1] is the i-th row, [4] its j.name)
NextSourceName(sources, i) ==
    IF i < Len(sources) THEN sources[i][5] ELSE "Completion"

\* head of the for loop: the status update for the i-th source, then the call
\* of process_court_source
UCI_Progress(p) ==
    /\ frame[p].pc = "loop"
    /\ frame[p].i < frame[p].total_sources
    /\ LET i == frame[p].i + 1
           source == frame[p].sources[i]
       IN /\ \E status_ok \in StoreOutcomes :
                /\ Counted(status_ok)
                /\ inventory_updates' =
                    update_scraper_status(inventory_updates, frame[p].update_id, i,
                        frame[p].total_sources, "running",
                        <<"Processing jurisdiction", source[4], source[5]>>,
                        source[5], NextSourceName(frame[p].sources, i),
                        <<"Checking courts", source[4]>>, status_ok)
          /\ frame' = [frame EXCEPT ![p] =
                [@ EXCEPT !.pc = "fetch", !.i = i, !.source_id = source[1],
                          !.court = NoResult, !.outcome = "none",
                          !.polled = Append(@, source[1])]]
    /\ UNCHANGED <<courts, court_sources, now, scenario, api_usage, scraper_status>>

\* after the loop: "Update final status" and the return of the totals
UCI_Finish(p) ==
    /\ frame[p].pc = "loop"
    /\ frame[p].i = frame[p].total_sources
    /\ LET f == frame[p]
           completion_message ==
               <<"Processed sources", f.total_sources, f.court_type,
                 f.total_new_courts, f.total_updated_courts>>
       IN /\ \E status_ok \in StoreOutcomes :
                /\ Counted(status_ok)
                /\ inventory_updates' =
                    update_scraper_status(inventory_updates, f.update_id,
                        f.total_sources, f.total_sources, "completed",
                        completion_message, "Complete", NULL, <<"Finished">>, status_ok)
          /\ frame' = [frame EXCEPT ![p] =
                [@ EXCEPT !.pc = "returned", !.court = NoResult,
                          !.result = CompletedResult(f.total_sources, f.total_new_courts,
                                         f.total_updated_courts, f.court_type,
                                         completion_message)]]
    /\ UNCHANGED <<courts, court_sources, now, scenario, api_usage, scraper_status>>

\* the caller has the result; the worker is free again
UCI_Return(p) ==
    /\ frame[p].pc = "returned"
    /\ frame' = [frame EXCEPT ![p] = IdleFrame]
    /\ UNCHANGED <<inventory_updates, courts, court_sources, now, scenario, api_usage, scraper_status, faults>>

\* --------------------------------------------------- process_court_source
\* the results of process_court_source that are failures of the source
SourceFailures == {"fetch_error", "no_connection", "data_error", "store_error"}

\* a loop that lets the failure of a source end the run
AbortOnFailure(f, new_courts, updated_courts, outcome) ==
    IF outcome \in SourceFailures
    THEN [f EXCEPT !.pc = "returned",
                   !.outcome = outcome, !.had_failure = TRUE,
                   !.result = ErrorResult("Error updating court inventory")]
    ELSE [f EXCEPT !.pc = "loop",
                   !.returned = <<new_courts, updated_courts>>,
                   !.outcome = outcome,
                   !.total_new_courts = @ + new_courts,
                   !.total_updated_courts = @ + updated_courts,
                   !.source_id = NoId, !.pending = <<>>,
                   !.new_courts = 0, !.updated_courts = 0, !.n = 0]

\* process_court_source returning (new_courts, updated_courts) to the loop of
\* update_court_inventory, which adds them to its totals; outcome is what
\* process_court_source logged for the source, had_failure whether a source
\* of this run has failed
ReturnToLoop(f, new_courts, updated_courts, outcome) ==
    [f EXCEPT !.pc = "loop",
              !.returned = <<new_courts, updated_courts>>,
              !.outcome = outcome,
              !.had_failure = @ \/ outcome \in SourceFailures,
              !.total_new_courts = @ + new_courts,
              !.total_updated_courts = @ + updated_courts,
              !.source_id = NoId, !.pending = <<>>,
              !.new_courts = 0, !.updated_courts = 0,
              !.n = 0]

\* what the first part of process_court_source can meet: requests.get or
\* raise_for_status raises, discovery finds no court, no store connection, or
\* a non-empty list of candidates
FetchOutcomes == {"fetch_error", "no_courts", "no_connection", "courts"}

PCS_Fetch(p) ==
    /\ frame[p].pc = "fetch"
    /\ \E outcome \in FetchOutcomes :
        /\ outcome = "no_connection" => FALSE \in StoreOutcomes
        /\ Counted(outcome # "no_connection")
        /\ frame' = [frame EXCEPT ![p] =
            IF outcome = "courts"
            THEN [@ EXCEPT !.pc = "verify", !.pending = <<>>,
                           !.new_courts = 0, !.updated_courts = 0, !.n = 0]
            ELSE ReturnToLoop(@, 0, 0, outcome)]
    /\ UNCHANGED <<inventory_updates, courts, court_sources, now, scenario, api_usage, scraper_status>>

\* one iteration of "for court in courts": verify_court_info, the verified
\* test, the upsert and the new / updated count.  The upsert waits while
\* another transaction holds an uncommitted row of the same name.  store_ok = FALSE: the
\* statement fails in the store.  An exception (KeyError, a store error) rolls
\* the transaction back and process_court_source returns (0, 0).
PCS_Verify(p) ==
    /\ frame[p].pc = "verify"
    /\ frame[p].n < CandLimit
    /\ \E input \in Inputs :
        LET f == frame[p]
            court == input[1]
            response == input[2]
            verified_court == verify_court_info(court, response)
            jurisdiction_id == f.sources[f.i][2]
            params == UpsertParams(verified_court, jurisdiction_id)
            visible == ApplyUpserts(courts, f.pending, now)
            is_insert == ~HasName(visible, params.name)
        IN IF ~PassesVerification(verified_court)
           THEN /\ frame' = [frame EXCEPT ![p] =
                        [@ EXCEPT !.court = verified_court, !.n = @ + 1]]
                /\ UNCHANGED faults
           ELSE IF ViolatesNotNull(params)
           THEN /\ frame' = [frame EXCEPT ![p] =
                        ReturnToLoop([@ EXCEPT !.court = verified_court],
                                     0, 0, "data_error")]
                /\ UNCHANGED faults
           ELSE \E store_ok \in StoreOutcomes :
                /\ Counted(store_ok)
                /\ \A q \in Procs \ {p} : ~HasName(frame[q].pending, params.name)
                /\ frame' = [frame EXCEPT ![p] =
                    IF ~store_ok
                    THEN ReturnToLoop([@ EXCEPT !.court = verified_court],
                                      0, 0, "store_error")
                    ELSE [@ EXCEPT !.court = verified_court, !.n = @ + 1,
                                   !.pending = Append(@, params),
                                   !.new_courts = IF is_insert THEN @ + 1 ELSE @,
                                   !.updated_courts = IF is_insert THEN @ ELSE @ + 1]]
    /\ UNCHANGED <<inventory_updates, courts, court_sources, now, scenario, api_usage, scraper_status>>

\* the UPDATE that writes the counts of the source over the counters:
\* SET new_courts_found = %s, courts_updated = %s
CountersOverwritten(table, update_id, new_courts, updated_courts) ==
    [r \in DOMAIN table |->
        IF r = update_id
        THEN [table[r] EXCEPT !.new_courts_found = new_courts,
                              !.courts_updated = updated_courts]
        ELSE table[r]]

\* UPDATE inventory_updates SET new_courts_found = new_courts_found + %s, ...
CountersUpdated(table, update_id, new_courts, updated_courts) ==
    [r \in DOMAIN table |->
        IF r = update_id
        THEN [table[r] EXCEPT !.new_courts_found = @ + new_courts,
                              !.courts_updated = @ + updated_courts]
        ELSE table[r]]

\* the UPDATE without the CASE: last_updated set at every poll
SourceCheckedAndUpdated(table, source_id, new_courts, updated_courts, ts) ==
    [table EXCEPT ![source_id] = [@ EXCEPT !.last_checked = ts, !.last_updated = ts]]

\* UPDATE court_sources SET last_checked = CURRENT_TIMESTAMP, last_updated = CASE ...
SourceChecked(table, source_id, new_courts, updated_courts, ts) ==
    [table EXCEPT ![source_id] =
        [@ EXCEPT !.last_checked = ts,
                  !.last_updated = IF new_courts > 0 \/ updated_courts > 0
                                   THEN ts ELSE @]]

\* after the for loop: the run counters, the source timestamps, the commit and
\* the return of the counts; store_ok = FALSE: one of them fails, rollback
PCS_Commit(p) ==
    /\ frame[p].pc = "verify"
    /\ frame[p].n >= 1
    /\ LET f == frame[p] IN
       \E store_ok \in StoreOutcomes :
        /\ Counted(store_ok)
        /\ IF store_ok
           THEN /\ courts' = ApplyUpserts(courts, f.pending, now)
                /\ inventory_updates' =
                     CountersUpdated(inventory_updates, f.update_id,
                                     f.new_courts, f.updated_courts)
                /\ court_sources' =
                     SourceChecked(court_sources, f.source_id, f.new_courts,
                                   f.updated_courts, now)
                /\ frame' = [frame EXCEPT ![p] =
                       ReturnToLoop([@ EXCEPT !.court = NoResult],
                                    f.new_courts, f.updated_courts, "ok")]
           ELSE /\ UNCHANGED <<courts, inventory_updates, court_sources>>
                /\ frame' = [frame EXCEPT ![p] =
                       ReturnToLoop([@ EXCEPT !.court = NoResult], 0, 0, "store_error")]
    /\ UNCHANGED <<now, scenario, api_usage, scraper_status>>

\* ------------------------- process_court_page and store_discovered_court
\* the unique constraints of the courts table (CREATE TABLE of initialize_database)
CourtsUniqueConstraints == {<<"name">>}

\* store_discovered_court: the courts table after the call.  Its INSERT names
\* the conflict target (name, jurisdiction_id); a conflict target that no
\* unique constraint matches makes the statement fail, and the function rolls
\* back and returns False.
store_discovered_court(table, court_data, ts) ==
    IF court_data.name = NULL \/ court_data.jurisdiction = NULL
    THEN table
    ELSE IF <<"name", "jurisdiction_id">> \notin CourtsUniqueConstraints
    THEN table
    ELSE UpsertCourt(table,
            [UpsertParams(court_data, NoId) EXCEPT !.url = NULL], ts)

PageOutcomes == {"invalid_url", "download_failed", "no_content", "content"}

\* process_court_page up to the verification loop
PAGE_Start(p) ==
    /\ p = "discovery"
    /\ scenario = "discovery"
    /\ frame[p].pc = "idle"
    /\ \E outcome \in PageOutcomes :
        frame' = [frame EXCEPT ![p] =
            [IdleFrame EXCEPT !.pc = IF outcome = "content" THEN "page_verify"
                                     ELSE "page_returned"]]
    /\ UNCHANGED <<inventory_updates, courts, court_sources, now, scenario, api_usage, scraper_status, faults>>

\* one iteration of "for court in all_courts"
PAGE_Verify(p) ==
    /\ frame[p].pc = "page_verify"
    /\ frame[p].n < CandLimit
    /\ \E input \in Inputs :
        LET court == input[1]
            response == input[2]
            verified_court == verify_court_info(court, response)
        IN frame' = [frame EXCEPT ![p] =
            [@ EXCEPT !.court = verified_court, !.n = @ + 1,
                      !.verified_courts =
                          IF PassesVerification(verified_court)
                          THEN Append(@, verified_court) ELSE @]]
    /\ UNCHANGED <<inventory_updates, courts, court_sources, now, scenario, api_usage, scraper_status, faults>>

\* return verified_courts
PAGE_Return(p) ==
    /\ frame[p].pc = "page_verify"
    /\ frame' = [frame EXCEPT ![p] = [@ EXCEPT !.pc = "page_returned"]]
    /\ UNCHANGED <<inventory_updates, courts, court_sources, now, scenario, api_usage, scraper_status, faults>>

\* test_discovery_process: "for court in courts: store_discovered_court(court)"
PAGE_Store(p) ==
    /\ frame[p].pc = "page_returned"
    /\ frame[p].verified_courts # <<>>
    /\ courts' = store_discovered_court(courts, Head(frame[p].verified_courts), now)
    /\ frame' = [frame EXCEPT ![p] =
            [@ EXCEPT !.verified_courts = Tail(@), !.court = Head(frame[p].verified_courts)]]
    /\ UNCHANGED <<inventory_updates, court_sources, now, scenario, api_usage, scraper_status, faults>>

PAGE_Done(p) ==
    /\ frame[p].pc = "page_returned"
    /\ frame[p].verified_courts = <<>>
    /\ frame' = [frame EXCEPT ![p] = IdleFrame]
    /\ UNCHANGED <<inventory_updates, courts, court_sources, now, scenario, api_usage, scraper_status, faults>>

Next ==
    \/ Tick
    \/ initialize_database
    \/ \E p \in Procs :
        \/ UCI_Start(p)
        \/ UCI_Connect(p)
        \/ UCI_Query(p)
        \/ UCI_InitialStatus(p)
        \/ UCI_Progress(p)
        \/ UCI_Finish(p)
        \/ UCI_Return(p)
        \/ PCS_Fetch(p)
        \/ PCS_Verify(p)
        \/ PCS_Commit(p)
        \/ PAGE_Start(p)
        \/ PAGE_Verify(p)
        \/ PAGE_Return(p)
        \/ PAGE_Store(p)
        \/ PAGE_Done(p)

Spec == Init /\ [][Next]_vars

\* ------------------------------------------------------ the due-source query
\* The query of update_court_inventory over a registry whose sources are
\* active or not, never checked, or checked two update frequencies, one
\* update frequency or half an update frequency ago; a source may have no
\* update_frequency (COALESCE takes 24 hours).
QueryTime == 2 * DefaultFrequency

SourceRows ==
    {[jurisdiction_id |-> 0, source_url |-> NULL, is_active |-> a, last_checked |-> t,
      last_updated |-> NoTime, update_frequency |-> DefaultFrequency] :
        a \in BOOLEAN,
        t \in {NoTime, QueryTime - 2 * DefaultFrequency, QueryTime - DefaultFrequency,
               QueryTime - (DefaultFrequency \div 2)}}
    \cup
    {[jurisdiction_id |-> 0, source_url |-> NULL, is_active |-> TRUE, last_checked |-> t,
      last_updated |-> NoTime, update_frequency |-> NoTime] :
        t \in {QueryTime - 2 * DefaultFrequency, QueryTime - (DefaultFrequency \div 2)}}

InitDue ==
    /\ inventory_updates = <<>>
    /\ courts = <<SeedCourt>>
    /\ court_sources \in
         {[s \in SourceIds |-> [rows[s] EXCEPT !.jurisdiction_id = s,
                                                !.source_url = SourceUrls[s]]] :
             rows \in [SourceIds -> SourceRows]}
    /\ now = QueryTime
    /\ scenario = "due_query"
    /\ faults = 0
    /\ api_usage = <<>>
    /\ scraper_status = <<>>
    /\ frame = [p \in Procs |-> IdleFrame]

\* update_court_inventory up to its due-source query
NextDue ==
    \E p \in Procs :
        \/ UCI_Start(p)
        \/ UCI_Connect(p)
        \/ UCI_Query(p)
        \/ UCI_Return(p)

SpecDue == InitDue /\ [][NextDue]_vars

\* ------------------------------------------------------- concurrent runs
\* update_court_inventory called by two workers over a registry whose
\* sources are all due
InitConcurrent ==
    /\ inventory_updates = <<>>
    /\ courts = <<SeedCourt>>
    /\ court_sources = InitialSources
    /\ now = 0
    /\ scenario = "concurrent_runs"
    /\ faults = 0
    /\ api_usage = <<>>
    /\ scraper_status = <<>>
    /\ frame = [p \in Procs |-> IdleFrame]

NextConcurrent ==
    \E p \in Procs :
        \/ UCI_Start(p)
        \/ UCI_Connect(p)
        \/ UCI_Query(p)
        \/ UCI_InitialStatus(p)
        \/ UCI_Progress(p)
        \/ UCI_Finish(p)
        \/ UCI_Return(p)
        \/ PCS_Fetch(p)
        \/ PCS_Verify(p)
        \/ PCS_Commit(p)

SpecConcurrent == InitConcurrent /\ [][NextConcurrent]_vars

\* ------------------------------------------------------ source registration
\* initialize_court_sources (worker "inventory") and update_court_sources
\* (worker "discovery") register a batch of sources inside one transaction.
\* A statement that raises leaves the transaction aborted: every later
\* statement of the transaction raises as well, and its commit rolls back.
\* Neither function rolls back or sets a savepoint in its "except: continue".
MaxBatch == 3

\* a URL longer than the column source_url VARCHAR(255)
LongUrl == "https://www.uscourts.gov/court-locator/..."

ExceedsSourceUrlColumn(url) == url = LongUrl

\* the unique constraints of table jurisdictions: name ... UNIQUE
JurisdictionsUniqueConstraints == {<<"name">>}

\* the columns of table court_sources
CourtSourcesColumns ==
    {"id", "jurisdiction_id", "source_url", "is_active", "last_checked",
     "last_updated", "update_frequency"}

\* the registry before registration: every source registered, the last one
\* deactivated
RegistrySources ==
    [s \in SourceIds |->
        [InitialSources[s] EXCEPT !.is_active = (s # NumSources)]]

\* (jurisdiction_id, url) pairs to register: a registered active source, the
\* deactivated source, a known URL under another jurisdiction, and a URL the
\* column cannot hold
RegistrationInputs ==
    {<<1, SourceUrls[1]>>, <<NumSources, SourceUrls[NumSources]>>,
     <<1, SourceUrls[NumSources]>>, <<1, LongUrl>>}

HasSource(table, jurisdiction_id, url) ==
    \E s \in DOMAIN table :
        table[s].jurisdiction_id = jurisdiction_id /\ table[s].source_url = url

RegisteredRow(jurisdiction_id, url, last_checked) ==
    [jurisdiction_id |-> jurisdiction_id, source_url |-> url, is_active |-> TRUE,
     last_checked |-> last_checked, last_updated |-> NoTime,
     update_frequency |-> DefaultFrequency]

\* INSERT INTO court_sources ... ON CONFLICT (jurisdiction_id, source_url)
\* DO UPDATE SET is_active = true, last_checked = CURRENT_TIMESTAMP
\* (insert_checked: the last_checked of an inserted row)
RegisterSource(table, jurisdiction_id, url, insert_checked, ts) ==
    IF HasSource(table, jurisdiction_id, url)
    THEN [s \in DOMAIN table |->
            IF table[s].jurisdiction_id = jurisdiction_id /\ table[s].source_url = url
            THEN [table[s] EXCEPT !.is_active = TRUE, !.last_checked = ts]
            ELSE table[s]]
    ELSE Append(table, RegisteredRow(jurisdiction_id, url, insert_checked))

RECURSIVE ApplyRegistrations(_, _, _, _)
ApplyRegistrations(table, pending, insert_checked, ts) ==
    IF pending = <<>> THEN table
    ELSE ApplyRegistrations(
             RegisterSource(table, pending[1][1], pending[1][2], insert_checked, ts),
             Tail(pending), insert_checked, ts)

\* whether the statements for one source of update_court_sources raise:
\* ON CONFLICT (name, type) needs a unique constraint on those columns, and
\* the INSERT names the column source_type
DiscoveryStatementsRaise ==
    \/ <<"name", "type">> \notin JurisdictionsUniqueConstraints
    \/ "source_type" \notin CourtSourcesColumns

\* the jurisdiction_types list of update_court_sources
JurisdictionTypes == <<"federal", "state", "county">>

\* conn = get_db_connection(); cur = conn.cursor()
REG_Start(p) ==
    /\ \/ p = "inventory" /\ scenario = "initialize_court_sources"
       \/ p = "discovery" /\ scenario = "update_court_sources"
    /\ frame[p].pc = "idle"
    /\ frame' = [frame EXCEPT ![p] = [IdleFrame EXCEPT !.pc = "register", !.i = 1]]
    /\ UNCHANGED <<inventory_updates, courts, court_sources, now, scenario, api_usage, scraper_status, faults>>

\* one iteration of a "for url in ..." / "for source in sources" loop: the
\* statements for one source inside try/except-continue
REG_Statement(p) ==
    /\ frame[p].pc = "register"
    /\ Len(frame[p].batch) < MaxBatch
    /\ \E input \in RegistrationInputs :
        LET raises == \/ frame[p].tx_aborted
                      \/ ExceedsSourceUrlColumn(input[2])
                      \/ p = "discovery" /\ DiscoveryStatementsRaise
            staged == ApplyRegistrations(court_sources, frame[p].pending, now, now)
            is_insert == ~HasSource(staged, input[1], input[2])
        IN frame' = [frame EXCEPT ![p] =
               IF raises
               THEN [@ EXCEPT !.batch = Append(@, input), !.tx_aborted = TRUE]
               ELSE [@ EXCEPT !.batch = Append(@, input),
                              !.pending = Append(@, input),
                              !.new_courts = @ + (IF is_insert THEN 1 ELSE 0),
                              !.updated_courts = @ + (IF is_insert THEN 0 ELSE 1)]]
    /\ UNCHANGED <<inventory_updates, courts, court_sources, now, scenario, api_usage, scraper_status, faults>>

\* conn.commit(): of initialize_court_sources after both loops, of
\* update_court_sources after each jurisdiction type. The commit of an
\* aborted transaction rolls it back; the next statement opens a new one.
REG_Commit(p) ==
    /\ frame[p].pc = "register"
    /\ Len(frame[p].batch) > 0 \/ p = "discovery"
    /\ court_sources' =
         IF frame[p].tx_aborted THEN court_sources
         ELSE ApplyRegistrations(court_sources, frame[p].pending,
                  IF p = "discovery" THEN now ELSE NoTime, now)
    /\ frame' = [frame EXCEPT ![p] =
         IF p = "discovery" /\ frame[p].i < Len(JurisdictionTypes)
         THEN [@ EXCEPT !.i = @ + 1, !.batch = <<>>, !.pending = <<>>,
                        !.tx_aborted = FALSE]
         ELSE [@ EXCEPT !.pc = "registered",
                        !.result = [status |-> "completed",
                                    new_sources |-> frame[p].new_courts,
                                    updated_sources |-> frame[p].updated_courts]]]
    /\ UNCHANGED <<inventory_updates, courts, now, scenario, api_usage, scraper_status, faults>>

\* finally: the connection is closed or returned, the function returns
REG_Return(p) ==
    /\ frame[p].pc = "registered"
    /\ frame' = [frame EXCEPT ![p] = IdleFrame]
    /\ UNCHANGED <<inventory_updates, courts, court_sources, now, scenario, api_usage, scraper_status, faults>>

InitReg ==
    /\ inventory_updates = <<>>
    /\ courts = <<SeedCourt>>
    /\ court_sources = RegistrySources
    /\ now = DefaultFrequency
    /\ scenario \in {"initialize_court_sources", "update_court_sources"}
    /\ faults = 0
    /\ api_usage = <<>>
    /\ scraper_status = <<>>
    /\ frame = [p \in Procs |-> IdleFrame]

NextReg ==
    \E p \in Procs :
        \/ REG_Start(p)
        \/ REG_Statement(p)
        \/ REG_Commit(p)
        \/ REG_Return(p)

SpecReg == InitReg /\ [][NextReg]_vars

\* ------------------------------------------------------- store connections
\* The connection handling of the operations that open a store connection:
\* which exit paths each has, and on which of them the connection is
\* returned to the pool or closed.
MaxCalls == 3

\* operations of court_scraper, court_ai_discovery and court_source_discovery
\* take their connection from the pool of court_data; those of
\* court_inventory connect directly
PooledOperations ==
    {"initialize_scraper_run", "update_database", "store_invalid_url",
     "update_court_sources"}

DirectOperations == {"process_court_source", "update_court_inventory"}

Operations == PooledOperations \cup DirectOperations

\* what get_db_connection gives: a connection, None, or (the pooled one) None
\* after getconn() handed out a connection whose 'SELECT 1' test raised: the
\* except branch retries and never puts that connection back
ConnectionOutcomes(operation) ==
    IF operation \in PooledOperations
    THEN {"connection", "none", "test_failed"}
    ELSE {"connection", "none"}

\* the ways out of an operation once it holds a connection (the early
\* returns of process_court_source come before it takes one)
ExitPaths(operation) ==
    IF operation = "update_court_inventory"
    THEN {"success", "early_return", "exception"}
    ELSE IF operation = "store_invalid_url"
    THEN {"success", "exception", "cursor_exception"}
    ELSE {"success", "exception"}

\* how many times the operation releases its connection on a path:
\*   initialize_scraper_run  return_db_connection only before "return run_id";
\*                           the except branch returns None without it
\*   update_database         conn.close() only after the commit; the except
\*                           branch re-raises without it
\*   store_invalid_url       return_db_connection in finally, after "if cur:",
\*                           which raises when conn.cursor() raised
\*   update_court_sources    return_db_connection in finally
\*   process_court_source    conn.close() in finally
\*   update_court_inventory  conn.close() in finally
ReleaseCalls(operation, path) ==
    IF operation \in {"initialize_scraper_run", "update_database"}
    THEN (IF path = "success" THEN 1 ELSE 0)
    ELSE IF operation = "store_invalid_url"
    THEN (IF path = "cursor_exception" THEN 0 ELSE 1)
    ELSE 1

\* the operation is called
CONN_Call(p) ==
    /\ scenario \in Operations
    /\ p = (IF scenario \in DirectOperations THEN "inventory" ELSE "discovery")
    /\ frame[p].pc = "idle"
    /\ frame[p].calls < MaxCalls
    /\ frame' = [frame EXCEPT ![p] =
          [@ EXCEPT !.pc = "acquire", !.operation = scenario,
                    !.held = 0, !.releases = 0, !.calls = @ + 1]]
    /\ UNCHANGED <<inventory_updates, courts, court_sources, now, scenario, api_usage, scraper_status, faults>>

\* conn = get_db_connection(); without a connection every operation leaves
\* (by a return or by the AttributeError of None.cursor())
CONN_Acquire(p) ==
    /\ frame[p].pc = "acquire"
    /\ \E outcome \in ConnectionOutcomes(frame[p].operation) :
        frame' = [frame EXCEPT ![p] =
            IF outcome = "connection"
            THEN [@ EXCEPT !.pc = "body", !.held = 1]
            ELSE IF outcome = "test_failed"
            THEN [@ EXCEPT !.pc = "exit", !.unreleased = @ + 1]
            ELSE [@ EXCEPT !.pc = "exit"]]
    /\ UNCHANGED <<inventory_updates, courts, court_sources, now, scenario, api_usage, scraper_status, faults>>

\* the body of the operation up to its exit, with the release calls of the
\* path taken
CONN_Body(p) ==
    /\ frame[p].pc = "body"
    /\ \E path \in ExitPaths(frame[p].operation) :
        frame' = [frame EXCEPT ![p] =
            [@ EXCEPT !.pc = "exit", !.outcome = path,
                      !.releases = ReleaseCalls(frame[p].operation, path)]]
    /\ UNCHANGED <<inventory_updates, courts, court_sources, now, scenario, api_usage, scraper_status, faults>>

\* the operation has returned or raised; a connection it took and did not
\* release stays open
CONN_Exit(p) ==
    /\ frame[p].pc = "exit"
    /\ frame' = [frame EXCEPT ![p] =
          [@ EXCEPT !.pc = "idle",
                    !.unreleased = @ + (IF frame[p].held > frame[p].releases
                                        THEN frame[p].held - frame[p].releases ELSE 0)]]
    /\ UNCHANGED <<inventory_updates, courts, court_sources, now, scenario, api_usage, scraper_status, faults>>

InitConn ==
    /\ inventory_updates = <<>>
    /\ courts = <<SeedCourt>>
    /\ court_sources = InitialSources
    /\ now = 0
    /\ scenario \in Operations
    /\ faults = 0
    /\ api_usage = <<>>
    /\ scraper_status = <<>>
    /\ frame = [p \in Procs |-> IdleFrame]

NextConn ==
    \E p \in Procs :
        \/ CONN_Call(p)
        \/ CONN_Acquire(p)
        \/ CONN_Body(p)
        \/ CONN_Exit(p)

SpecConn == InitConn /\ [][NextConn]_vars

\* ------------------------------------------ the download of process_court_page
\* process_court_page with its retry loop spelled out: fetch_log is what each
\* attempt met, delays the time.sleep calls made, in order.
max_retries == 3

BackoffCap == 10

\* a delay growing by one second per attempt
LinearBackoff(attempt) == attempt + 1

\* backoff_time = min(2 ** attempt, 10)
Backoff(attempt) == IF 2^attempt < BackoffCap THEN 2^attempt ELSE BackoffCap

\* trafilatura.fetch_url returns the page, returns nothing, or raises
AttemptOutcomes == {"downloaded", "nothing", "raised"}

\* cleaned_url = clean_and_validate_url(url); if not cleaned_url: return []
FETCH_Start(p) ==
    /\ p = "discovery"
    /\ scenario = "page_fetch"
    /\ frame[p].pc = "idle"
    /\ \E valid \in BOOLEAN :
        frame' = [frame EXCEPT ![p] =
            IF valid THEN [IdleFrame EXCEPT !.pc = "download"]
            ELSE [IdleFrame EXCEPT !.pc = "page_returned", !.outcome = "invalid_url"]]
    /\ UNCHANGED <<inventory_updates, courts, court_sources, now, scenario, api_usage, scraper_status, faults>>

\* one iteration of "for attempt in range(max_retries)": a page ends the
\* loop; nothing downloaded sleeps the backoff; an exception sleeps it only
\* "if attempt < max_retries - 1"
FETCH_Attempt(p) ==
    /\ frame[p].pc = "download"
    /\ frame[p].attempt < max_retries
    /\ \E outcome \in AttemptOutcomes :
        LET attempt == frame[p].attempt
            sleeps == \/ outcome = "nothing"
                      \/ outcome = "raised" /\ attempt < max_retries - 1
        IN frame' = [frame EXCEPT ![p] =
            [@ EXCEPT !.fetch_log = Append(@, outcome),
                      !.attempt = @ + 1,
                      !.delays = IF sleeps THEN Append(@, Backoff(attempt)) ELSE @,
                      !.pc = IF outcome = "downloaded" THEN "extract" ELSE "download"]]
    /\ UNCHANGED <<inventory_updates, courts, court_sources, now, scenario, api_usage, scraper_status, faults>>

\* the loop is over with nothing downloaded: return []
FETCH_GiveUp(p) ==
    /\ frame[p].pc = "download"
    /\ frame[p].attempt = max_retries
    /\ frame' = [frame EXCEPT ![p] =
          [@ EXCEPT !.pc = "page_returned", !.outcome = "download_failed"]]
    /\ UNCHANGED <<inventory_updates, courts, court_sources, now, scenario, api_usage, scraper_status, faults>>

\* content = trafilatura.extract(...); if not content: return []
FETCH_Extract(p) ==
    /\ frame[p].pc = "extract"
    /\ \E content \in BOOLEAN :
        frame' = [frame EXCEPT ![p] =
            IF content THEN [@ EXCEPT !.pc = "page_verify", !.outcome = "content"]
            ELSE [@ EXCEPT !.pc = "page_returned", !.outcome = "no_content"]]
    /\ UNCHANGED <<inventory_updates, courts, court_sources, now, scenario, api_usage, scraper_status, faults>>

InitFetch ==
    /\ inventory_updates = <<>>
    /\ courts = <<SeedCourt>>
    /\ court_sources = InitialSources
    /\ now = 0
    /\ scenario = "page_fetch"
    /\ faults = 0
    /\ api_usage = <<>>
    /\ scraper_status = <<>>
    /\ frame = [p \in Procs |-> IdleFrame]

NextFetch ==
    \E p \in Procs :
        \/ FETCH_Start(p)
        \/ FETCH_Attempt(p)
        \/ FETCH_GiveUp(p)
        \/ FETCH_Extract(p)
        \/ PAGE_Verify(p)
        \/ PAGE_Return(p)
        \/ PAGE_Store(p)
        \/ PAGE_Done(p)

\* process_court_page is sequential code: a step that can be taken is taken
SpecFetch == InitFetch /\ [][NextFetch]_vars /\ WF_vars(NextFetch)

\* ------------------------------------------------------------- api usage
\* The functions that call client.chat.completions.create, and what each
\* does about api_usage afterwards.
ServiceCalls ==
    {"process_court_data", "verify_court_info", "discover_courts_from_content",
     "search_court_directories", "discover_court_sources"}

\* the model= argument of each call
ServiceModel(call) ==
    IF call \in {"process_court_data", "discover_court_sources"} THEN "gpt-4o"
    ELSE "gpt-4o-mini"

\* whether the function calls log_api_usage: process_court_data does, in its
\* try body and in its except branch; no other caller mentions it
LogsUsage(call) == call = "process_court_data"

\* tokens_used = len(text.split()) + len(system_prompt.split()), for a page
\* text of one or of two words beside the prompt
TokenCounts == {1, 2}

\* log_api_usage: the INSERT INTO api_usage; nothing is inserted when there
\* is no connection or the INSERT raises
log_api_usage(table, endpoint, tokens_used, model, success, ok) ==
    IF ok
    THEN Append(table, [endpoint |-> endpoint, tokens_used |-> tokens_used,
                        model |-> model, success |-> success])
    ELSE table

\* response = client.chat.completions.create(...): it answers or raises
API_Call(p) ==
    /\ p = "discovery"
    /\ scenario = "api_usage"
    /\ frame[p].pc = "idle"
    /\ frame[p].calls < MaxCalls
    /\ \E call \in ServiceCalls, success \in BOOLEAN, tokens \in TokenCounts :
        frame' = [frame EXCEPT ![p] =
            [@ EXCEPT !.pc = "called", !.operation = call, !.calls = @ + 1,
                      !.outcome = IF success THEN "success" ELSE "failure",
                      !.n = IF success THEN tokens ELSE 0]]
    /\ UNCHANGED <<inventory_updates, courts, court_sources, now, scenario, faults,
                   api_usage, scraper_status>>

\* the rest of the calling function: the usage record, if it writes one, and
\* the return
API_Record(p) ==
    /\ frame[p].pc = "called"
    /\ \E ok \in BOOLEAN :
        api_usage' =
            IF LogsUsage(frame[p].operation)
            THEN log_api_usage(api_usage, "chat.completions", frame[p].n,
                               ServiceModel(frame[p].operation),
                               frame[p].outcome = "success", ok)
            ELSE api_usage
    /\ frame' = [frame EXCEPT ![p] = [@ EXCEPT !.pc = "idle"]]
    /\ UNCHANGED <<inventory_updates, courts, court_sources, now, scenario, faults,
                   scraper_status>>

InitUsage ==
    /\ inventory_updates = <<>>
    /\ courts = <<SeedCourt>>
    /\ court_sources = InitialSources
    /\ now = 0
    /\ scenario = "api_usage"
    /\ faults = 0
    /\ api_usage = <<>>
    /\ scraper_status = <<>>
    /\ frame = [p \in Procs |-> IdleFrame]

NextUsage ==
    \E p \in Procs :
        \/ API_Call(p)
        \/ API_Record(p)

SpecUsage == InitUsage /\ [][NextUsage]_vars

\* -------------------------------------------------- clean_and_validate_url
\* A string is a sequence of one-character strings.  URLs are put together
\* from padding, a scheme, a host, a port, a path and an annotation, and
\* clean_and_validate_url works on the characters of the whole.
Concat(parts) == parts[1] \o parts[2] \o parts[3] \o parts[4] \o parts[5] \o parts[6] \o parts[7]

Whitespace == {" ", "\t", "\n"}

Digits == {"0", "1", "2", "3", "4", "5", "6", "7", "8", "9"}

\* \w of the pattern, for ASCII text
WordChars ==
    {"a", "b", "c", "d", "e", "f", "g", "h", "i", "j", "k", "l", "m", "n", "o", "p", "q", "r", "s", "t", "u", "v", "w", "x", "y", "z",
     "A", "B", "C", "D", "E", "F", "G", "H", "I", "J", "K", "L", "M", "N", "O", "P", "Q", "R", "S", "T", "U", "V", "W", "X", "Y", "Z", "_"} \cup Digits

\* [\w\-.] and [\w\-./?%&=]
HostChars == WordChars \cup {"-", "."}

PathChars == HostChars \cup {"/", "?", "%", "&", "="}

Http == <<"h", "t", "t", "p", ":", "/", "/">>

Https == <<"h", "t", "t", "p", "s", ":", "/", "/">>

Paddings == {<<>>, <<" ">>}

Schemes == {<<>>, Http, Https, <<"f", "t", "p", ":", "/", "/">>}

Hosts == {<<"e", "x", "a", "m", "p", "l", "e", ".", "g", "o", "v">>, <<"n", "o", "t", " ", "a", " ", "u", "r", "l">>, <<>>}

Ports == {<<>>, <<":", "8", "0", "8", "0">>, <<":", "x">>}

Paths == {<<>>, <<"/", "p", "a", "t", "h">>, <<"/", "p", "?", "q", "=", "1">>, <<"/", "a", " ", "b">>}

Annotations == {<<>>, <<" ", "(", "C", "i", "r", "c", "u", "i", "t", " ", "C", "o", "u", "r", "t", ")">>, <<"(", "x", ")">>}

\* <<padding, scheme, host, port, path, annotation, padding>>
UrlParts ==
    {<<pad, scheme, host, port, path, note, pad>> :
        pad \in Paddings, scheme \in Schemes, host \in Hosts,
        port \in Ports, path \in Paths, note \in Annotations}

StartsWith(s, prefix) ==
    Len(s) >= Len(prefix) /\ SubSeq(s, 1, Len(prefix)) = prefix

\* url.split('(')[0]
BeforeParenthesis(s) ==
    IF \E k \in DOMAIN s : s[k] = "("
    THEN SubSeq(s, 1, (CHOOSE k \in DOMAIN s :
                          s[k] = "(" /\ \A j \in 1..(k - 1) : s[j] # "(") - 1)
    ELSE s

\* str.strip()
Strip(s) ==
    LET inner == {k \in DOMAIN s : s[k] \notin Whitespace}
    IN IF inner = {} THEN <<>>
       ELSE SubSeq(s, CHOOSE k \in inner : \A j \in inner : k <= j,
                      CHOOSE k \in inner : \A j \in inner : k >= j)

\* a test that knows the scheme https:// only
HasHttpsScheme(s) == StartsWith(s, Https)

\* cleaned_url.startswith(('http://', 'https://'))
HasScheme(s) == StartsWith(s, Http) \/ StartsWith(s, Https)

\* the length of the longest run of characters of class at the head of s
RECURSIVE Run(_, _)
Run(s, class) ==
    IF s # <<>> /\ Head(s) \in class THEN 1 + Run(Tail(s), class) ELSE 0

Drop(s, n) == SubSeq(s, n + 1, Len(s))

\* re.match(r'^https?://[\w\-.]+(:\d+)?(/[\w\-./?%&=]*)?$', s)
MatchesUrlPattern(s) ==
    /\ HasScheme(s)
    /\ LET after_scheme == IF StartsWith(s, Https) THEN Drop(s, Len(Https))
                           ELSE Drop(s, Len(Http))
           host_len == Run(after_scheme, HostChars)
           after_host == Drop(after_scheme, host_len)
           has_port == after_host # <<>> /\ Head(after_host) = ":"
           port_len == IF has_port THEN Run(Tail(after_host), Digits) ELSE 0
           after_port == IF has_port THEN Drop(after_host, 1 + port_len)
                         ELSE after_host
       IN /\ host_len > 0
          /\ has_port => port_len > 0
          /\ \/ after_port = <<>>
             \/ /\ Head(after_port) = "/"
                /\ Run(Tail(after_port), PathChars) = Len(after_port) - 1

NoneResult == [is_none |-> TRUE, url |-> <<>>]

UrlResult(url) == [is_none |-> FALSE, url |-> url]

\* clean_and_validate_url(url); a url that is not a string makes url.split
\* raise, and the except branch returns None
clean_and_validate_url(is_str, url) ==
    IF ~is_str THEN NoneResult
    ELSE LET stripped == Strip(BeforeParenthesis(url))
             cleaned_url == IF HasScheme(stripped) THEN stripped
                            ELSE Https \o stripped
         IN IF MatchesUrlPattern(cleaned_url) THEN UrlResult(cleaned_url)
            ELSE NoneResult

\* a caller passes a URL, or something that is not a string
URL_Clean(p) ==
    /\ p = "discovery"
    /\ scenario = "clean_url"
    /\ frame[p].pc = "idle"
    /\ frame[p].calls = 0
    /\ frame' = [frame EXCEPT ![p] =
          [@ EXCEPT !.pc = "cleaned", !.calls = 1,
                    !.output = clean_and_validate_url(frame[p].input.is_str,
                                                      Concat(frame[p].input.parts))]]
    /\ UNCHANGED <<inventory_updates, courts, court_sources, now, scenario, faults,
                   api_usage, scraper_status>>

InitUrl ==
    /\ inventory_updates = <<>>
    /\ courts = <<SeedCourt>>
    /\ court_sources = InitialSources
    /\ now = 0
    /\ scenario = "clean_url"
    /\ faults = 0
    /\ api_usage = <<>>
    /\ scraper_status = <<>>
    /\ \E parts \in UrlParts, is_str \in BOOLEAN :
          frame = [p \in Procs |->
                     IF p = "discovery"
                     THEN [IdleFrame EXCEPT !.input = [is_str |-> is_str, parts |-> parts]]
                     ELSE IdleFrame]

NextUrl == \E p \in Procs : URL_Clean(p)

SpecUrl == InitUrl /\ [][NextUrl]_vars

\* ---------------------------------------------------- extract_json_array
\* The content handed to extract_json_array, as what json.loads makes of it:
\* an object (a function from some keys to values), a top-level array, any
\* other JSON value, or text that is not JSON.  A value is a list ("list1",
\* "list2"), a scalar, or a text with an embedded array, with square
\* brackets that hold no JSON, or with neither.
MaxKeys == 2

JsonKeys ==
    {"response", "result", "results", "sources", "courts", "data", "url",
     "message", "note"}

JsonLists == {"list1", "list2"}

JsonValues ==
    JsonLists \cup {"scalar", "text_with_array", "text_with_brackets", "text"}

JsonObjects ==
    UNION {[keys -> JsonValues] :
              keys \in {ks \in SUBSET JsonKeys : Cardinality(ks) <= MaxKeys}}

Contents ==
    {[kind |-> "object", data |-> data, text |-> "text"] : data \in JsonObjects}
    \cup {[kind |-> "array", data |-> <<>>, text |-> "text"],
          [kind |-> "scalar", data |-> <<>>, text |-> "text"]}
    \cup {[kind |-> "not_json", data |-> <<>>, text |-> text] :
             text \in {"text_with_array", "text_with_brackets", "text"}}

\* the wrapper fields with 'data' tried first
WrapperFieldsDataFirst ==
    <<"data", "response", "result", "results", "sources", "courts">>

\* for field in ['response', 'result', 'results', 'sources', 'courts', 'data']
WrapperFields ==
    <<"response", "result", "results", "sources", "courts", "data">>

\* match = re.search(r'\[[\s\S]*\]', text); json.loads(match.group(0)): the
\* array inside the text; no match, or a match that is not JSON (the
\* exception is swallowed), gives the empty list
EmbeddedArray(text) == IF text = "text_with_array" THEN "embedded_array" ELSE "empty_list"

\* extract_json_array(content): which list it returns
extract_json_array(content) ==
    IF content.kind = "object"
    THEN LET data == content.data
             hits == {k \in DOMAIN WrapperFields :
                         /\ WrapperFields[k] \in DOMAIN data
                         /\ data[WrapperFields[k]] \in JsonLists}
         IN IF hits # {}
            THEN data[WrapperFields[CHOOSE k \in hits : \A j \in hits : k <= j]]
            ELSE IF "url" \in DOMAIN data THEN "list_of_the_object"
            ELSE IF "message" \in DOMAIN data
            THEN (IF data["message"] \in {"text_with_array", "text_with_brackets", "text"}
                  THEN EmbeddedArray(data["message"])
                  ELSE "empty_list")
            ELSE "empty_list"
    ELSE IF content.kind = "array" THEN "top_level_array"
    ELSE IF content.kind = "scalar" THEN "empty_list"
    ELSE EmbeddedArray(content.text)

JSON_Extract(p) ==
    /\ p = "discovery"
    /\ scenario = "extract_json"
    /\ frame[p].pc = "idle"
    /\ frame[p].calls = 0
    /\ frame' = [frame EXCEPT ![p] =
          [@ EXCEPT !.pc = "extracted", !.calls = 1,
                    !.output = [list |-> extract_json_array(frame[p].input)]]]
    /\ UNCHANGED <<inventory_updates, courts, court_sources, now, scenario, faults,
                   api_usage, scraper_status>>

InitJson ==
    /\ inventory_updates = <<>>
    /\ courts = <<SeedCourt>>
    /\ court_sources = InitialSources
    /\ now = 0
    /\ scenario = "extract_json"
    /\ faults = 0
    /\ api_usage = <<>>
    /\ scraper_status = <<>>
    /\ \E content \in Contents :
          frame = [p \in Procs |->
                     IF p = "discovery" THEN [IdleFrame EXCEPT !.input = content]
                     ELSE IdleFrame]

NextJson == \E p \in Procs : JSON_Extract(p)

SpecJson == InitJson /\ [][NextJson]_vars

\* ------------------------------------------------------ validate_court_url
\* validate_court_url on URLs "https://<host>", the host a sequence of
\* characters, against a server whose certificate verifies or not and that
\* answers the HEAD (and, after a 403, the GET) request with a status code.
CourtHosts ==
    {<<"w", "w", "w", ".", "p", "h", "i", "l", "a", ".", "g", "o", "v">>,
     <<"p", "h", "i", "l", "a", ".", "g", "o", "v">>,
     <<"c", "o", "u", "r", "t", "s", ".", "p", "h", "i", "l", "a", ".", "g", "o", "v", ".", "e", "v", "i", "l", ".", "c", "o", "m">>,
     <<"w", "w", "w", ".", "l", "a", "c", "o", "u", "r", "t", ".", "o", "r", "g">>,
     <<"w", "w", "w", ".", "c", "o", "o", "k", "c", "o", "u", "n", "t", "y", "c", "o", "u", "r", "t", ".", "o", "r", "g">>,
     <<"e", "x", "a", "m", "p", "l", "e", ".", "g", "o", "v">>,
     <<"w", "w", "w", ".", "u", "s", "c", "o", "u", "r", "t", "s", ".", "g", "o", "v">>,
     <<"w", "w", "w", ".", "p", "h", "i", "l", "a", ".", "g", "o", "v", "e", "r", "n", "m", "e", "n", "t", ".", "e", "x", "a", "m", "p", "l", "e", ".", "c", "o", "m">>,
     <<"e", "x", "a", "m", "p", "l", "e", ".", "c", "o", "m">>}

\* the list in "verify_ssl = not any(d in domain for d in [...])"
InsecureDomains == {<<".", "p", "h", "i", "l", "a", ".", "g", "o", "v">>, <<".", "l", "a", "c", "o", "u", "r", "t", ".", "o", "r", "g">>, <<".", "c", "o", "o", "k", "c", "o", "u", "n", "t", "y", "c", "o", "u", "r", "t", ".", "o", "r", "g">>}

StatusCodes == {200, 403, 404, 500}

EndsWith(s, suffix) ==
    Len(s) >= Len(suffix) /\ SubSeq(s, Len(s) - Len(suffix) + 1, Len(s)) = suffix

\* Python's "sub in s" for strings
Contains(s, sub) ==
    \E k \in 1..(Len(s) - Len(sub) + 1) : SubSeq(s, k, k + Len(sub) - 1) = sub

\* any(d in domain for d in ['.phila.gov', '.lacourt.org', '.cookcountycourt.org'])
InsecureAllowed(domain) == \E d \in InsecureDomains : Contains(domain, d)

\* is_gov_domain or has_court_indicator, for the URL "https://<domain>"
LooksLikeCourtSite(domain) ==
    \/ EndsWith(domain, <<".", "g", "o", "v">>)
    \/ EndsWith(domain, <<".", "u", "s">>)
    \/ EndsWith(domain, <<"c", "o", "u", "r", "t", ".", "o", "r", "g">>)
    \/ \E indicator \in {<<".", "c", "o", "u", "r", "t", "s", ".">>, <<".", "u", "s", "c", "o", "u", "r", "t", "s", ".">>, <<".", "c", "o", "u", "r", "t", ".">>, <<"s", "u", "p", "r", "e", "m", "e", "c", "o", "u", "r", "t">>, <<"j", "u", "d", "i", "c", "i", "a", "r", "y">>, <<"j", "u", "d", "i", "c", "i", "a", "l">>, <<"c", "o", "u", "r", "t", "i", "n", "f", "o">>, <<"l", "a", "c", "o", "u", "r", "t">>, <<"p", "h", "i", "l", "a", "c", "o", "u", "r", "t", "s">>, <<"c", "o", "o", "k", "c", "o", "u", "n", "t", "y", "c", "o", "u", "r", "t">>} :
          Contains(domain, indicator)

\* validate_court_url(url): whether the certificate was verified, and the
\* value returned
validate_court_url(domain, certificate_ok, head_status, get_status) ==
    LET verify_ssl == ~InsecureAllowed(domain)
    IN IF verify_ssl /\ ~certificate_ok
       THEN [verified |-> TRUE, valid |-> InsecureAllowed(domain)]
       ELSE [verified |-> verify_ssl,
             valid |-> /\ \/ head_status = 200
                          \/ head_status = 403 /\ get_status = 200
                       /\ LooksLikeCourtSite(domain)]

URL_Validate(p) ==
    /\ p = "discovery"
    /\ scenario = "validate_court_url"
    /\ frame[p].pc = "idle"
    /\ frame[p].calls = 0
    /\ frame' = [frame EXCEPT ![p] =
          [@ EXCEPT !.pc = "validated", !.calls = 1,
                    !.output = validate_court_url(frame[p].input.domain,
                                   frame[p].input.certificate_ok,
                                   frame[p].input.head_status,
                                   frame[p].input.get_status)]]
    /\ UNCHANGED <<inventory_updates, courts, court_sources, now, scenario, faults,
                   api_usage, scraper_status>>

InitValidate ==
    /\ inventory_updates = <<>>
    /\ courts = <<SeedCourt>>
    /\ court_sources = InitialSources
    /\ now = 0
    /\ scenario = "validate_court_url"
    /\ faults = 0
    /\ api_usage = <<>>
    /\ scraper_status = <<>>
    /\ \E domain \in CourtHosts, certificate_ok \in BOOLEAN,
          head_status \in StatusCodes, get_status \in {200, 500} :
          frame = [p \in Procs |->
                     IF p = "discovery"
                     THEN [IdleFrame EXCEPT !.input =
                              [domain |-> domain, certificate_ok |-> certificate_ok,
                               head_status |-> head_status, get_status |-> get_status]]
                     ELSE IdleFrame]

NextValidate == \E p \in Procs : URL_Validate(p)

SpecValidate == InitValidate /\ [][NextValidate]_vars

\* ------------------------------------------------------ test_court_discovery
\* main() of test_court_discovery.py and the __main__ block around it.
\* frame.attempt is the loop variable, frame.calls the number of calls of
\* test_discovery_process, frame.fetch_log what each call did, frame.delays
\* the arguments of time.sleep, frame.elapsed time.time() - start_time,
\* frame.outcome the value main() returned.
retries == 3

max_total_time == 900

\* how long one call of test_discovery_process can take, in seconds
CallDurations == {1, 500}

\* test_discovery_process returns a true or a false value, raises an
\* Exception, or is interrupted from the keyboard
DiscoveryOutcomes == {"True", "False", "raised", "interrupted"}

FixedWait(attempt) == 5

\* wait_time = (attempt + 1) * 5
WaitTime(attempt) == (attempt + 1) * 5

\* if __name__ == "__main__": try: main()
RUN_Start(p) ==
    /\ p = "discovery"
    /\ scenario = "test_runner"
    /\ frame[p].pc = "idle"
    /\ frame' = [frame EXCEPT ![p] = [IdleFrame EXCEPT !.pc = "attempt"]]
    /\ UNCHANGED <<inventory_updates, courts, court_sources, now, scenario, faults,
                   api_usage, scraper_status>>

\* "if time.time() - start_time > max_total_time: return False" at the head
\* of an iteration
RUN_CheckRuntime(p) ==
    /\ frame[p].pc = "attempt"
    /\ frame' = [frame EXCEPT ![p] =
          IF frame[p].elapsed > max_total_time
          THEN [@ EXCEPT !.pc = "main_returned", !.outcome = "False"]
          ELSE [@ EXCEPT !.pc = "call"]]
    /\ UNCHANGED <<inventory_updates, courts, court_sources, now, scenario, faults,
                   api_usage, scraper_status>>

\* success = test_discovery_process() and what the iteration does with it:
\* a true value returns True; a false value or an Exception sleeps
\* "if attempt < retries - 1" and goes to the next iteration; a
\* KeyboardInterrupt is not an Exception and leaves main()
RUN_Call(p) ==
    /\ frame[p].pc = "call"
    /\ \E outcome \in DiscoveryOutcomes, duration \in CallDurations :
        LET attempt == frame[p].attempt
            called == [frame[p] EXCEPT !.calls = @ + 1,
                                       !.fetch_log = Append(@, outcome),
                                       !.elapsed = @ + duration]
            sleeps == attempt < retries - 1
        IN frame' = [frame EXCEPT ![p] =
            IF outcome = "True"
            THEN [called EXCEPT !.pc = "main_returned", !.outcome = "True"]
            ELSE IF outcome = "interrupted"
            THEN [called EXCEPT !.pc = "exited", !.exit_code = 130]
            ELSE [called EXCEPT
                    !.delays = IF sleeps THEN Append(@, WaitTime(attempt)) ELSE @,
                    !.elapsed = IF sleeps THEN @ + WaitTime(attempt) ELSE @,
                    !.attempt = @ + 1,
                    !.pc = IF attempt + 1 < retries THEN "attempt" ELSE "all_failed"]]
    /\ UNCHANGED <<inventory_updates, courts, court_sources, now, scenario, faults,
                   api_usage, scraper_status>>

\* logger.error("All retry attempts failed"); return False
RUN_AllFailed(p) ==
    /\ frame[p].pc = "all_failed"
    /\ frame' = [frame EXCEPT ![p] = [@ EXCEPT !.pc = "main_returned", !.outcome = "False"]]
    /\ UNCHANGED <<inventory_updates, courts, court_sources, now, scenario, faults,
                   api_usage, scraper_status>>

\* if main(): sys.exit(0) else: sys.exit(1)
RUN_Exit(p) ==
    /\ frame[p].pc = "main_returned"
    /\ frame' = [frame EXCEPT ![p] =
          [@ EXCEPT !.pc = "exited",
                    !.exit_code = IF frame[p].outcome = "True" THEN 0 ELSE 1]]
    /\ UNCHANGED <<inventory_updates, courts, court_sources, now, scenario, faults,
                   api_usage, scraper_status>>

InitRunner ==
    /\ inventory_updates = <<>>
    /\ courts = <<SeedCourt>>
    /\ court_sources = InitialSources
    /\ now = 0
    /\ scenario = "test_runner"
    /\ faults = 0
    /\ api_usage = <<>>
    /\ scraper_status = <<>>
    /\ frame = [p \in Procs |-> IdleFrame]

NextRunner ==
    \E p \in Procs :
        \/ RUN_Start(p)
        \/ RUN_CheckRuntime(p)
        \/ RUN_Call(p)
        \/ RUN_AllFailed(p)
        \/ RUN_Exit(p)

SpecRunner == InitRunner /\ [][NextRunner]_vars

\* ------------------------------------------------------------ data scraper
\* The "Start Scraping" button of display_court_tab and scrape_courts, over
\* the scraper_status table (rows: total_courts, courts_processed, status,
\* stage, end_time).  frame.run_id is run_id of the tab, frame.scraper_run_id
\* the variable of scrape_courts, frame.courts_data len(courts_data),
\* frame.rows_before the number of rows when the button was pressed.
MaxCourts == 2

MaxPresses == 2

\* INSERT INTO scraper_status (total_courts, courts_processed, status, message)
\* VALUES (%s, 0, 'running', 'Initializing scraper') RETURNING id
initialize_scraper_run(table, total_courts) ==
    Append(table, [total_courts |-> total_courts, courts_processed |-> 0,
                   status |-> "running", stage |-> NULL, end_time |-> NoTime])

\* update_scraper_status of court_data: ok = FALSE is "no connection" or a
\* failed UPDATE (rolled back)
ScraperStatusUpdated(table, scraper_run_id, courts_processed, total_courts, status, stage, ok) ==
    IF ok /\ scraper_run_id \in DOMAIN table
    THEN [table EXCEPT ![scraper_run_id] =
            [@ EXCEPT !.courts_processed = courts_processed,
                      !.total_courts = total_courts,
                      !.status = status, !.stage = stage,
                      !.end_time = IF status = "completed" THEN now ELSE @]]
    ELSE table

\* what one iteration of "for court in courts" can meet; "handler_raised" is
\* an exception inside the except block of the iteration
CourtOutcomes ==
    {"no_url", "no_text", "extracted", "extract_failed", "raised", "handler_raised"}

\* the button: total_courts = len(selected_courts) or len(courts);
\* if total_courts > 0: run_id = initialize_scraper_run(total_courts);
\* if run_id is not None: scrape_courts(...)
TAB_StartScraping(p) ==
    /\ p = "discovery"
    /\ scenario = "data_scraper"
    /\ frame[p].pc \in {"idle", "tab_done"}
    /\ frame[p].calls < MaxPresses
    /\ \E total_courts \in 0..MaxCourts, store_ok \in BOOLEAN :
        IF total_courts = 0 \/ ~store_ok
        THEN /\ frame' = [frame EXCEPT ![p] =
                   [IdleFrame EXCEPT !.pc = "tab_done", !.calls = frame[p].calls + 1,
                                     !.rows_before = Len(scraper_status),
                                     !.outcome = IF total_courts = 0 THEN "no_courts"
                                                 ELSE "init_failed"]]
             /\ UNCHANGED scraper_status
        ELSE /\ scraper_status' = initialize_scraper_run(scraper_status, total_courts)
             /\ frame' = [frame EXCEPT ![p] =
                   [IdleFrame EXCEPT !.pc = "scrape", !.calls = frame[p].calls + 1,
                                     !.rows_before = Len(scraper_status),
                                     !.run_id = Len(scraper_status) + 1]]
    /\ UNCHANGED <<inventory_updates, courts, court_sources, now, scenario, faults,
                   api_usage>>

\* scrape_courts up to the court loop: the courts are counted; if there are
\* any, "scraper_run_id = initialize_scraper_run(total_courts)" (return [] if
\* that fails) and the first status update
SCR_Begin(p) ==
    /\ frame[p].pc = "scrape"
    /\ \E total_courts \in 0..MaxCourts, store_ok \in BOOLEAN :
        IF total_courts = 0 \/ ~store_ok
        THEN /\ frame' = [frame EXCEPT ![p] = [@ EXCEPT !.pc = "scrape_returned"]]
             /\ UNCHANGED scraper_status
        ELSE LET scraper_run_id == Len(scraper_status) + 1
             IN /\ scraper_status' =
                     ScraperStatusUpdated(
                         initialize_scraper_run(scraper_status, total_courts),
                         scraper_run_id, 0, total_courts, "running",
                         "Starting scraper", TRUE)
                /\ frame' = [frame EXCEPT ![p] =
                      [@ EXCEPT !.pc = "courts", !.scraper_run_id = scraper_run_id,
                                !.total_courts = total_courts,
                                !.courts_processed = 0, !.courts_data = 0]]
    /\ UNCHANGED <<inventory_updates, courts, court_sources, now, scenario, faults,
                   api_usage>>

\* one iteration of the court loop: courts_processed += 1, the status
\* updates, the fetch and the extraction; an exception of the iteration is
\* logged, one raised while logging it reaches the except of scrape_courts,
\* which writes 'error' and returns []
SCR_Court(p) ==
    /\ frame[p].pc = "courts"
    /\ frame[p].courts_processed < frame[p].total_courts
    /\ \E outcome \in CourtOutcomes :
        LET f == frame[p]
            courts_processed == f.courts_processed + 1
            stage == IF outcome \in {"extracted", "extract_failed"}
                     THEN "Extracting data" ELSE "Fetching content"
            updated == ScraperStatusUpdated(scraper_status, f.scraper_run_id,
                           courts_processed, f.total_courts, "running", stage, TRUE)
        IN IF outcome = "handler_raised"
           THEN /\ scraper_status' =
                     ScraperStatusUpdated(updated, f.scraper_run_id, courts_processed,
                                          f.total_courts, "error", "Failed", TRUE)
                /\ frame' = [frame EXCEPT ![p] =
                      [@ EXCEPT !.pc = "scrape_returned", !.outcome = outcome,
                                !.courts_processed = courts_processed,
                                !.courts_data = 0]]
           ELSE /\ scraper_status' = updated
                /\ frame' = [frame EXCEPT ![p] =
                      [@ EXCEPT !.outcome = outcome,
                                !.courts_processed = courts_processed,
                                !.courts_data = IF outcome = "extracted" THEN @ + 1 ELSE @]]
    /\ UNCHANGED <<inventory_updates, courts, court_sources, now, scenario, faults,
                   api_usage>>

\* after the loops: update_scraper_status(..., 'completed', ...,
\* stage='Finished'); return courts_data
SCR_Finish(p) ==
    /\ frame[p].pc = "courts"
    /\ frame[p].courts_processed = frame[p].total_courts
    /\ \E store_ok \in BOOLEAN :
        scraper_status' =
            ScraperStatusUpdated(scraper_status, frame[p].scraper_run_id,
                                 frame[p].courts_processed, frame[p].total_courts,
                                 "completed", "Finished", store_ok)
    /\ frame' = [frame EXCEPT ![p] = [@ EXCEPT !.pc = "scrape_returned"]]
    /\ UNCHANGED <<inventory_updates, courts, court_sources, now, scenario, faults,
                   api_usage>>

\* back in the tab: "if courts_data: update_database(courts_data) ...
\* else: No data collected"
TAB_Finish(p) ==
    /\ frame[p].pc = "scrape_returned"
    /\ frame' = [frame EXCEPT ![p] =
          [@ EXCEPT !.pc = "tab_done",
                    !.outcome = IF frame[p].courts_data > 0 THEN "Completed!"
                                ELSE "No data collected"]]
    /\ UNCHANGED <<inventory_updates, courts, court_sources, now, scenario, faults,
                   api_usage, scraper_status>>

InitScrape ==
    /\ inventory_updates = <<>>
    /\ courts = <<SeedCourt>>
    /\ court_sources = InitialSources
    /\ now = 0
    /\ scenario = "data_scraper"
    /\ faults = 0
    /\ api_usage = <<>>
    /\ scraper_status = <<>>
    /\ frame = [p \in Procs |-> IdleFrame]

NextScrape ==
    \E p \in Procs :
        \/ TAB_StartScraping(p)
        \/ SCR_Begin(p)
        \/ SCR_Court(p)
        \/ SCR_Finish(p)
        \/ TAB_Finish(p)

\* the tab and scrape_courts are sequential code: a step that can be taken is taken
SpecScrape == InitScrape /\ [][NextScrape]_vars /\ WF_vars(NextScrape)

\* ================================================================ properties

\* C1: a candidate that verification returned is accepted (kept in the result
\* of process_court_page, upserted by process_court_source) if and only if
\* verified is true and confidence > 0.7; verified with confidence <= 0.7 is
\* rejected.
C1_AcceptedIffVerifiedAndConfident ==
    [][\A p \in Procs :
         (/\ frame[p].pc \in {"verify", "page_verify"}
          /\ frame'[p].pc = frame[p].pc
          /\ frame'[p].n = frame[p].n + 1)
         => LET c == frame'[p].court
                accepted ==
                    \/ Len(frame'[p].pending) > Len(frame[p].pending)
                    \/ Len(frame'[p].verified_courts) > Len(frame[p].verified_courts)
            IN accepted <=> (c.verified /\ c.confidence > 7)]_vars

\* C2: once a row of inventory_updates has status 'completed' or 'error', no
\* step changes its status, whatever the interleaving of initialize_database
\* with a live run.
C2_TerminalStatusNeverChanges ==
    [][\A r \in DOMAIN inventory_updates :
         inventory_updates[r].status \in Terminal
         => inventory_updates'[r].status = inventory_updates[r].status]_vars

\* C3: when update_court_inventory returns after initialize_inventory_run
\* created its row, the row is in a terminal status and that status is the
\* 'status' of the returned result.
C3_RunTerminalOnReturn ==
    \A p \in Procs :
        (frame[p].pc = "returned" /\ frame[p].update_id # NoId)
        => LET row == inventory_updates[frame[p].update_id]
           IN /\ row.status \in Terminal
              /\ row.status = frame[p].result.status

\* C4: the terminal fields of a run are set once: after completed_at has been
\* set, no step changes completed_at, status or message of the row, and none
\* resets completed_at to NULL.
C4_TerminalFieldsSetOnce ==
    [][\A r \in DOMAIN inventory_updates :
         inventory_updates[r].completed_at # NoTime
         => /\ inventory_updates'[r].completed_at = inventory_updates[r].completed_at
            /\ inventory_updates'[r].status = inventory_updates[r].status
            /\ inventory_updates'[r].message = inventory_updates[r].message]_vars

\* C5: a step of initialize_database turns every row that is 'running' into
\* 'error' with a message and a completion timestamp, and leaves every row
\* that is 'completed' or 'error' exactly as it was.
C5_StaleRunRecovery ==
    [][initialize_database
       => /\ DOMAIN inventory_updates' = DOMAIN inventory_updates
          /\ \A r \in DOMAIN inventory_updates :
                LET old == inventory_updates[r]
                    new == inventory_updates'[r]
                IN /\ old.status = "running"
                        => /\ new.status = "error"
                           /\ new.message # <<>> /\ new.message # old.message
                           /\ new.completed_at = now
                   /\ old.status \in Terminal => new = old]_vars

\* a stale run has been reset beside a run that had completed
C5_Witness ==
    \E r1, r2 \in DOMAIN inventory_updates :
        /\ inventory_updates[r1].status = "completed"
        /\ inventory_updates[r1].stage = <<"Finished">>
        /\ inventory_updates[r2].status = "error"
        /\ inventory_updates[r2].message = <<"Reset stalled update">>

\* C6: the upserts of one source transaction leave, for every name upserted,
\* exactly one row of that name whose mutable fields are the payload of the
\* last upsert of the name; the first upsert of a name the table did not hold
\* counts as new (is_insert), every other upsert counts as updated.
C6_IdempotentUpsert ==
    [][\A p \in Procs :
         (/\ frame[p].pc = "verify"
          /\ frame'[p].outcome = "ok")
         => LET pending == frame[p].pending
                names == {pending[k].name : k \in DOMAIN pending}
                created == {nm \in names : ~HasName(courts, nm)}
            IN /\ \A nm \in names :
                    LET rows == {k \in DOMAIN courts' : courts'[k].name = nm}
                        last == CHOOSE k \in DOMAIN pending :
                                  /\ pending[k].name = nm
                                  /\ \A j \in DOMAIN pending :
                                        pending[j].name = nm => j <= k
                    IN /\ Cardinality(rows) = 1
                       /\ \A k \in rows :
                            /\ courts'[k].type = pending[last].type
                            /\ courts'[k].url = pending[last].url
                            /\ courts'[k].status = pending[last].status
                            /\ courts'[k].address = pending[last].address
                            /\ courts'[k].contact_info = pending[last].contact_info
                            /\ courts'[k].last_updated = now
               /\ frame'[p].returned =
                    <<Cardinality(created), Len(pending) - Cardinality(created)>>]_vars

\* one source upserted the same new candidate twice: one row with the second
\* payload, one court counted new and one updated
C6_Witness ==
    \E p \in Procs :
        /\ frame[p].pc = "loop"
        /\ frame[p].returned = <<1, 1>>
        /\ courts[1] = SeedCourt
        /\ Len(courts) = 2
        /\ courts[2].name = ExampleCourt.name
        /\ courts[2].type = AcceptingOther.type
        /\ courts[2].status = AcceptingOther.status

\* C7: a step changes, of a row the courts table holds, at most type, status,
\* address, contact_info and last_updated; name, url, jurisdiction, lat, lon
\* and the other columns keep their values and no row is deleted.
C7_UpsertFrame ==
    [][\A k \in DOMAIN courts :
         /\ k \in DOMAIN courts'
         /\ courts'[k].id = courts[k].id
         /\ courts'[k].name = courts[k].name
         /\ courts'[k].url = courts[k].url
         /\ courts'[k].jurisdiction_id = courts[k].jurisdiction_id
         /\ courts'[k].lat = courts[k].lat
         /\ courts'[k].lon = courts[k].lon
         /\ courts'[k].image_url = courts[k].image_url]_vars

\* C8: a step that verifies a candidate whose verification call failed (the
\* candidate comes back without a confidence) drops that candidate and
\* nothing else: the accepted candidates and the counts are as before, and
\* the loop over the candidates of the page / source goes on.
C8_VerificationFailureDropsOneCandidate ==
    [][\A p \in Procs :
         (/\ frame[p].pc \in {"verify", "page_verify"}
          /\ \/ frame'[p].n # frame[p].n
             \/ frame'[p].outcome # frame[p].outcome
          /\ frame'[p].court # NoResult
          /\ frame'[p].court.confidence = NoConfidence)
         => /\ frame'[p].pc = frame[p].pc
            /\ frame'[p].n = frame[p].n + 1
            /\ frame'[p].outcome = frame[p].outcome
            /\ frame'[p].pending = frame[p].pending
            /\ frame'[p].verified_courts = frame[p].verified_courts
            /\ frame'[p].new_courts = frame[p].new_courts
            /\ frame'[p].updated_courts = frame[p].updated_courts
            /\ courts' = courts]_vars

\* the second candidate of a source met a failed verification call and was
\* dropped; the first, accepted, is still in the transaction
C8_Witness ==
    \E p \in Procs :
        /\ frame[p].pc = "verify"
        /\ frame[p].n = 2
        /\ frame[p].court # NoResult
        /\ frame[p].court.confidence = NoConfidence
        /\ Len(frame[p].pending) = 1

\* C9: a step of process_court_source that meets a verified candidate without
\* a required field (name, type, status) rejects that candidate only: the
\* accepted candidates stay in the transaction and the loop over the
\* candidates goes on.
C9_DataQualityRejectsOneCandidate ==
    [][\A p \in Procs :
         (/\ frame[p].pc = "verify"
          /\ \/ frame'[p].n # frame[p].n
             \/ frame'[p].outcome # frame[p].outcome
          /\ frame'[p].court # NoResult
          /\ frame'[p].court.verified
          /\ \/ frame'[p].court.name = NULL
             \/ frame'[p].court.type = NULL
             \/ frame'[p].court.status = NULL)
         => /\ frame'[p].pc = "verify"
            /\ frame'[p].n = frame[p].n + 1
            /\ frame'[p].pending = frame[p].pending]_vars

\* C10: a source whose processing fails returns (0, 0) and changes no court,
\* the loop goes on with the sources it queried, in their order, and when
\* update_court_inventory returns after the loop every source was processed
\* and the result is 'completed' (as is the row once the final status update
\* is in the store).
C10_SourceFailureNeverAbortsRun ==
    /\ [](\A p \in Procs :
            /\ frame[p].polled = [k \in 1..frame[p].i |-> frame[p].sources[k][1]]
            /\ (frame[p].pc = "returned" /\ frame[p].sources # <<>>)
               => /\ frame[p].i = Len(frame[p].sources)
                  /\ Len(frame[p].polled) = Len(frame[p].sources)
                  /\ frame[p].result.status = "completed"
                  /\ inventory_updates[frame[p].update_id].stage = <<"Finished">>
                     => inventory_updates[frame[p].update_id].status = "completed")
    /\ [][\A p \in Procs :
            (/\ frame'[p].outcome # frame[p].outcome
             /\ frame'[p].outcome \in SourceFailures)
            => /\ frame'[p].pc = "loop"
               /\ frame'[p].returned = <<0, 0>>
               /\ frame'[p].i = frame[p].i
               /\ frame'[p].sources = frame[p].sources
               /\ frame'[p].total_new_courts = frame[p].total_new_courts
               /\ frame'[p].total_updated_courts = frame[p].total_updated_courts
               /\ courts' = courts]_vars

\* a run whose first source failed processed its second source and completed
C10_Witness ==
    \E p \in Procs :
        /\ frame[p].pc = "returned"
        /\ Len(frame[p].sources) = 2
        /\ frame[p].had_failure
        /\ frame[p].outcome = "ok"
        /\ frame[p].result.status = "completed"
        /\ inventory_updates[frame[p].update_id].status = "completed"

\* C11: the due-source query returns exactly the sources that are active, of
\* the requested jurisdiction type when one is given, and never checked or
\* last checked more than their update frequency ago: checked two update
\* frequencies ago is included, half an update frequency ago is excluded,
\* never checked and active is included, inactive is never included.
C11_DueSourcesExact ==
    [][\A p \in Procs :
         (frame[p].pc = "query" /\ frame'[p].pc \in {"initial_status", "returned"})
         => LET court_type == frame[p].court_type
                selected == {frame'[p].sources[k][1] : k \in DOMAIN frame'[p].sources}
                wanted(s) ==
                    LET cs == court_sources[s]
                        frequency == IF cs.update_frequency = NoTime
                                     THEN DefaultFrequency ELSE cs.update_frequency
                    IN /\ cs.is_active
                       /\ court_type # "all"
                            => JurisdictionType(cs.jurisdiction_id) = court_type
                       /\ cs.last_checked = NoTime \/ now - cs.last_checked > frequency
            IN /\ selected = {s \in SourceIds : wanted(s)}
               /\ Len(frame'[p].sources) = Cardinality(selected)
               /\ \A s \in SourceIds :
                     LET cs == court_sources[s]
                         of_type == court_type = "all"
                                    \/ JurisdictionType(cs.jurisdiction_id) = court_type
                     IN /\ ~cs.is_active => s \notin selected
                        /\ (cs.is_active /\ of_type /\ cs.last_checked = NoTime)
                              => s \in selected
                        /\ (cs.is_active /\ of_type /\ cs.update_frequency # NoTime
                            /\ cs.last_checked = now - 2 * cs.update_frequency)
                              => s \in selected
                        /\ (cs.update_frequency # NoTime
                            /\ cs.last_checked = now - (cs.update_frequency \div 2))
                              => s \notin selected]_vars

\* a query with a state filter over a federal source and a state source: the
\* state source, checked two update frequencies ago, is the one returned
C11_Witness ==
    \E p \in Procs :
        /\ scenario = "due_query"
        /\ frame[p].pc = "initial_status"
        /\ frame[p].court_type = "state"
        /\ Len(frame[p].sources) = 1
        /\ frame[p].sources[1][1] = 2
        /\ court_sources[2].last_checked = now - 2 * court_sources[2].update_frequency
        /\ court_sources[1].last_checked = NoTime

\* C12: every poll of a source by process_court_source sets the source's
\* last_checked to the current time, whatever the outcome (fetch failure, no
\* court extracted, no store connection, transaction rolled back).
C12_LastCheckedAtEveryPoll ==
    [][\A p \in Procs :
         (frame[p].pc \in {"fetch", "verify"} /\ frame'[p].pc = "loop")
         => court_sources'[frame[p].source_id].last_checked = now]_vars

\* C13: a poll changes the last_updated of its source only when it yielded a
\* new or an updated court (then to the current time); a poll that returns
\* (0, 0) keeps the previous last_updated, and no step changes the
\* last_updated of a source it does not poll.
C13_LastUpdatedOnlyOnChange ==
    [][\A s \in SourceIds :
         court_sources'[s].last_updated # court_sources[s].last_updated
         => \E p \in Procs :
               /\ frame[p].pc = "verify" /\ frame'[p].pc = "loop"
               /\ frame[p].source_id = s
               /\ frame'[p].returned[1] + frame'[p].returned[2] > 0
               /\ court_sources'[s].last_updated = now]_vars

\* a source that yielded a court in an earlier run was polled again, yielded
\* candidates of which none was accepted, and kept its last_updated
C13_Witness ==
    \E p \in Procs :
        /\ frame[p].pc = "loop"
        /\ frame[p].outcome = "ok"
        /\ frame[p].returned = <<0, 0>>
        /\ LET s == frame[p].polled[Len(frame[p].polled)]
           IN /\ court_sources[s].last_checked = now
              /\ court_sources[s].last_updated # NoTime
              /\ court_sources[s].last_updated < now

\* C14: registering a (jurisdiction, url) pair is an idempotent upsert:
\* when a registration of well-formed pairs has committed, every pair of the
\* batch has exactly one row in court_sources and that row is active, also
\* when it was inactive before.
\* Violated by update_court_sources, whose statements raise for every source
\* (no unique constraint matches ON CONFLICT (name, type), and court_sources
\* has no column source_type): the deactivated source stays deactivated and
\* a new pair gets no row, while the function returns status 'completed'.
C14_RegisterSourceIdempotentUpsert ==
    [][\A p \in Procs :
         (/\ frame[p].pc = "register"
          /\ frame'[p].pc = "registered" \/ frame'[p].i = frame[p].i + 1
          /\ \A k \in DOMAIN frame[p].batch :
                ~ExceedsSourceUrlColumn(frame[p].batch[k][2]))
         => \A k \in DOMAIN frame[p].batch :
               /\ Cardinality({s \in DOMAIN court_sources' :
                     /\ court_sources'[s].jurisdiction_id = frame[p].batch[k][1]
                     /\ court_sources'[s].source_url = frame[p].batch[k][2]}) = 1
               /\ \A s \in DOMAIN court_sources' :
                     (/\ court_sources'[s].jurisdiction_id = frame[p].batch[k][1]
                      /\ court_sources'[s].source_url = frame[p].batch[k][2])
                     => court_sources'[s].is_active]_vars

\* C15: in a batch registration a source whose upsert fails is skipped and
\* only that one: when initialize_court_sources has committed, every source
\* of the batch whose URL fits the column has its row in court_sources, and
\* the row is active.
\* Violated: the failed statement leaves the transaction aborted, the
\* "except: continue" neither rolls back nor uses a savepoint, so every later
\* statement raises too and the commit rolls back the earlier ones.
C15_FailedUpsertSkipsOnlyThatSource ==
    [][(/\ frame["inventory"].pc = "register"
        /\ frame'["inventory"].pc = "registered")
       => \A k \in DOMAIN frame["inventory"].batch :
             ~ExceedsSourceUrlColumn(frame["inventory"].batch[k][2])
             => \E s \in DOMAIN court_sources' :
                   /\ court_sources'[s].jurisdiction_id = frame["inventory"].batch[k][1]
                   /\ court_sources'[s].source_url = frame["inventory"].batch[k][2]
                   /\ court_sources'[s].is_active]_vars

\* C16: at the progress update made for the i-th source of the query result
\* the run row's current_source names the i-th source and next_source names
\* the (i+1)-th, or "Completion" when the i-th is the last.
\* Violated: next_source is computed as sources[i-1][4] with i counting from
\* 1, which is the name of the i-th source itself.
C16_ProgressNamesCurrentAndNextSource ==
    [][\A p \in Procs :
         (/\ frame[p].pc = "loop"
          /\ frame'[p].pc = "fetch"
          /\ inventory_updates' # inventory_updates)
         => LET i == frame'[p].i
                row == inventory_updates'[frame[p].update_id]
            IN /\ frame'[p].source_id = frame[p].sources[i][1]
               /\ row.current_source = frame[p].sources[i][5]
               /\ row.next_source =
                     IF i < Len(frame[p].sources)
                     THEN frame[p].sources[i + 1][5]
                     ELSE "Completion"]_vars

\* C17: the run row's new_courts_found counts the Court rows the run
\* inserted and committed and courts_updated the committed updates of
\* existing Court rows: every transaction of process_court_source adds to the
\* row what it adds to the courts table and to the totals of
\* update_court_inventory, nothing else changes the counters or the courts
\* table, and a completed result carries the row's counters.
C17_CountersMatchCommittedRows ==
    /\ [][/\ \A p \in Procs :
               (frame[p].pc = "verify" /\ frame'[p].pc = "loop")
               => LET r == frame[p].update_id
                      inserted == Len(courts') - Len(courts)
                      updated == IF frame'[p].outcome = "ok"
                                 THEN Len(frame[p].pending) - inserted ELSE 0
                  IN /\ inventory_updates'[r].new_courts_found =
                           inventory_updates[r].new_courts_found + inserted
                     /\ inventory_updates'[r].courts_updated =
                           inventory_updates[r].courts_updated + updated
                     /\ frame'[p].total_new_courts =
                           frame[p].total_new_courts + inserted
                     /\ frame'[p].total_updated_courts =
                           frame[p].total_updated_courts + updated
                     /\ frame'[p].returned = <<inserted, updated>>
          /\ (\/ courts' # courts
              \/ \E r \in DOMAIN inventory_updates :
                    \/ inventory_updates'[r].new_courts_found #
                          inventory_updates[r].new_courts_found
                    \/ inventory_updates'[r].courts_updated #
                          inventory_updates[r].courts_updated)
             => \E p \in Procs : frame[p].pc = "verify" /\ frame'[p].pc = "loop"]_vars
    /\ [](\A p \in Procs :
            (frame[p].pc = "returned" /\ frame[p].result.status = "completed")
            => /\ frame[p].result.new_courts =
                     inventory_updates[frame[p].update_id].new_courts_found
               /\ frame[p].result.updated_courts =
                     inventory_updates[frame[p].update_id].courts_updated)

\* a run has ended whose one accepted candidate with a new name is the one
\* new Court row, counted once in the row and in the result
C17_Witness ==
    \E p \in Procs :
        /\ frame[p].pc = "returned"
        /\ frame[p].result.status = "completed"
        /\ frame[p].result.new_courts = 1
        /\ inventory_updates[frame[p].update_id].new_courts_found = 1
        /\ Len(courts) = 2
        /\ courts[2].name = ExampleCourt.name
        /\ courts[2].status = "Open"

\* C18: at most one run row is 'running' at any time, and two invocations
\* of update_court_inventory never process the same due source at once.
\* Violated: initialize_inventory_run inserts its 'running' row without
\* looking for another, and the due-source query takes no lock and marks
\* nothing, so both invocations get and process every due source.
C18_AtMostOneRunningRun ==
    /\ Cardinality({r \in DOMAIN inventory_updates :
                       inventory_updates[r].status = "running"}) <= 1
    /\ \A p, q \in Procs :
          (p # q /\ frame[p].source_id # NoId)
          => frame[q].source_id # frame[p].source_id

\* C19: every connection an operation acquires is released exactly once on
\* every exit path, so no unreleased connection ever accumulates.
\* Violated: initialize_scraper_run returns the connection only on its
\* success path, update_database closes it only after a successful commit,
\* and get_db_connection of court_data drops a pooled connection whose test
\* query raised.
C19_ConnectionReleasedExactlyOnce ==
    \A p \in Procs :
        /\ frame[p].pc = "exit" => frame[p].releases = frame[p].held
        /\ frame[p].unreleased = 0

\* C20 as stated: a page fetch makes at most 3 attempts and sleeps
\* min(2^k, 10) seconds after every failed attempt k = 0, 1, 2.
\* Violated when the third attempt fails by raising: the except branch
\* sleeps only "if attempt < max_retries - 1".
C20_DelayAfterEveryFailedAttempt ==
    \A p \in Procs :
        LET failed == {k \in DOMAIN frame[p].fetch_log :
                          frame[p].fetch_log[k] # "downloaded"}
        IN /\ Len(frame[p].fetch_log) <= 3
           /\ Len(frame[p].delays) = Cardinality(failed)
           /\ \A k \in DOMAIN frame[p].delays : frame[p].delays[k] = (IF 2^(k - 1) < 10 THEN 2^(k - 1) ELSE 10)

\* C20 amended: a page fetch makes at most 3 attempts; it sleeps
\* min(2^k, 10) seconds after the failed attempt k, except after the third
\* attempt when that one failed by raising; the download loop always ends;
\* and when every attempt failed or no text was extracted the function
\* returns the empty list.
C20_BoundedFetchWithBackoff ==
    /\ [](\A p \in Procs :
            LET log == frame[p].fetch_log
                failed == {k \in DOMAIN log : log[k] # "downloaded"}
                unslept == {k \in failed : k = max_retries /\ log[k] = "raised"}
            IN /\ Len(log) <= 3
               /\ \A k \in DOMAIN log : log[k] = "downloaded" => k = Len(log)
               /\ Len(frame[p].delays) = Cardinality(failed \ unslept)
               /\ \A k \in DOMAIN frame[p].delays : frame[p].delays[k] = (IF 2^(k - 1) < 10 THEN 2^(k - 1) ELSE 10)
               /\ (/\ frame[p].pc = "page_returned"
                   /\ frame[p].outcome \in {"invalid_url", "download_failed", "no_content"})
                  => frame[p].verified_courts = <<>>
               /\ (frame[p].pc = "page_returned" /\ frame[p].outcome = "download_failed")
                  => Cardinality(failed) = 3)
    /\ \A p \in Procs :
          (frame[p].pc = "download") ~> (frame[p].pc \in {"extract", "page_returned"})

\* three attempts have failed, the last by raising: delays of 1 and 2 seconds
\* were slept, and the empty list is returned
C20_Witness ==
    \E p \in Procs :
        /\ frame[p].pc = "page_returned"
        /\ frame[p].outcome = "download_failed"
        /\ frame[p].fetch_log = <<"nothing", "raised", "raised">>
        /\ frame[p].delays = <<1, 2>>
        /\ frame[p].verified_courts = <<>>

\* C21: every call of the external service is followed by exactly one
\* api_usage record with the endpoint, the model, the tokens and the success
\* flag of the call, whether the call succeeded or failed.
\* Violated: only process_court_data calls log_api_usage; verification,
\* candidate extraction, directory search and source discovery record
\* nothing (and log_api_usage drops the record when the store fails).
C21_EveryServiceCallRecorded ==
    [][\A p \in Procs :
         (frame[p].pc = "called" /\ frame'[p].pc = "idle")
         => /\ Len(api_usage') = Len(api_usage) + 1
            /\ api_usage'[Len(api_usage')] =
                  [endpoint |-> "chat.completions",
                   tokens_used |-> frame[p].n,
                   model |-> ServiceModel(frame[p].operation),
                   success |-> (frame[p].outcome = "success")]]_vars

\* C22: clean_and_validate_url drops everything from the first "(" and the
\* surrounding whitespace, prefixes https:// exactly when the rest has no
\* http:// or https:// scheme, and returns the result when it has the URL
\* shape (scheme, host, optional port, optional path / query) and None
\* otherwise, never raising: for a URL put together from parts the result is
\* the scheme (or https://), host, port and path when each part is well
\* formed, and None when a part is not or the argument is not a string.
C22_CleanAndValidateUrl ==
    \A p \in Procs :
        frame[p].pc = "cleaned"
        => LET parts == frame[p].input.parts
               scheme == parts[2]
               host == parts[3]
               port == parts[4]
               path == parts[5]
               well_formed ==
                   /\ frame[p].input.is_str
                   /\ scheme \in {<<>>, Http, Https}
                   /\ host = <<"e", "x", "a", "m", "p", "l", "e", ".", "g", "o", "v">>
                   /\ port \in {<<>>, <<":", "8", "0", "8", "0">>}
                   /\ path \in {<<>>, <<"/", "p", "a", "t", "h">>, <<"/", "p", "?", "q", "=", "1">>}
           IN frame[p].output =
                 IF well_formed
                 THEN [is_none |-> FALSE,
                       url |-> (IF scheme = <<>> THEN Https ELSE scheme)
                               \o host \o port \o path]
                 ELSE [is_none |-> TRUE, url |-> <<>>]

\* 'example.gov (Circuit Court)' has been cleaned to 'https://example.gov'
C22_Witness ==
    \E p \in Procs :
        /\ frame[p].pc = "cleaned"
        /\ frame[p].input.is_str
        /\ Concat(frame[p].input.parts) = <<"e", "x", "a", "m", "p", "l", "e", ".", "g", "o", "v", " ", "(", "C", "i", "r", "c", "u", "i", "t", " ", "C", "o", "u", "r", "t", ")">>
        /\ frame[p].output = [is_none |-> FALSE, url |-> <<"h", "t", "t", "p", "s", ":", "/", "/", "e", "x", "a", "m", "p", "l", "e", ".", "g", "o", "v">>]

\* C23 as stated: extract_json_array returns the list under the first of
\* response, result, results, sources, courts, data that holds a list, the
\* one-element list of a bare object with a 'url' key, a top-level array as
\* it is, and the empty list for anything else.  (Text that is not JSON and
\* has an array inside is left open here.)
\* Violated by an object with none of the above whose 'message' text has an
\* array inside: that array is returned.
C23_AnythingElseYieldsEmptyList ==
    \A p \in Procs :
        (frame[p].pc = "extracted" /\ frame[p].input.kind # "not_json")
        => LET content == frame[p].input
               data == content.data
               order == <<"response", "result", "results", "sources", "courts", "data">>
               holds_list(k) == order[k] \in DOMAIN data /\ data[order[k]] \in JsonLists
           IN frame[p].output.list =
                 IF content.kind = "object" /\ \E k \in 1..6 : holds_list(k)
                 THEN data[order[CHOOSE k \in 1..6 :
                              holds_list(k) /\ \A j \in 1..(k - 1) : ~holds_list(j)]]
                 ELSE IF content.kind = "object" /\ "url" \in DOMAIN data
                 THEN "list_of_the_object"
                 ELSE IF content.kind = "array" THEN "top_level_array"
                 ELSE "empty_list"

\* C23 amended: as stated, and in addition an object with no such list and
\* no 'url' key whose 'message' is text with a JSON array inside yields that
\* array, and so does text that is not JSON but has a JSON array inside;
\* everything else yields the empty list.
C23_ExtractJsonArray ==
    \A p \in Procs :
        frame[p].pc = "extracted"
        => LET content == frame[p].input
               data == content.data
               order == <<"response", "result", "results", "sources", "courts", "data">>
               holds_list(k) == order[k] \in DOMAIN data /\ data[order[k]] \in JsonLists
           IN frame[p].output.list =
                 IF content.kind = "object" /\ \E k \in 1..6 : holds_list(k)
                 THEN data[order[CHOOSE k \in 1..6 :
                              holds_list(k) /\ \A j \in 1..(k - 1) : ~holds_list(j)]]
                 ELSE IF content.kind = "object" /\ "url" \in DOMAIN data
                 THEN "list_of_the_object"
                 ELSE IF /\ content.kind = "object"
                         /\ "message" \in DOMAIN data
                         /\ data["message"] = "text_with_array"
                 THEN "embedded_array"
                 ELSE IF content.kind = "array" THEN "top_level_array"
                 ELSE IF content.kind = "not_json" /\ content.text = "text_with_array"
                 THEN "embedded_array"
                 ELSE "empty_list"

\* an object with lists under both 'data' and 'results' has given the list
\* under 'results'
C23_Witness ==
    \E p \in Procs :
        /\ frame[p].pc = "extracted"
        /\ frame[p].input.kind = "object"
        /\ DOMAIN frame[p].input.data = {"data", "results"}
        /\ frame[p].input.data["data"] = "list1"
        /\ frame[p].input.data["results"] = "list2"
        /\ frame[p].output.list = "list2"

\* C24: certificate verification is skipped, and a certificate failure
\* tolerated, only for hosts that are phila.gov, lacourt.org or
\* cookcountycourt.org or a subdomain of one: for every other host
\* validate_court_url verifies the certificate and returns False when it
\* does not verify.
\* Violated: the test is "'.phila.gov' in domain", a substring test, so
\* courts.phila.gov.evil.com and www.phila.government.example.com are
\* requested without verification.
C24_InsecureOnlyForAllowListedHosts ==
    \A p \in Procs :
        frame[p].pc = "validated"
        => LET domain == frame[p].input.domain
               allow_listed ==
                   \E d \in {<<"p", "h", "i", "l", "a", ".", "g", "o", "v">>, <<"l", "a", "c", "o", "u", "r", "t", ".", "o", "r", "g">>, <<"c", "o", "o", "k", "c", "o", "u", "n", "t", "y", "c", "o", "u", "r", "t", ".", "o", "r", "g">>} :
                      \/ domain = d
                      \/ /\ Len(domain) > Len(d) + 1
                         /\ SubSeq(domain, Len(domain) - Len(d), Len(domain)) = <<".">> \o d
           IN ~allow_listed
              => /\ frame[p].output.verified
                 /\ ~frame[p].input.certificate_ok => ~frame[p].output.valid

\* C25: main() calls test_discovery_process at most 3 times and stops at the
\* first call that returns True, returning True; it sleeps (attempt + 1) * 5
\* seconds after a failed attempt only when another attempt follows; it
\* returns False when every attempt failed or raised; and the process exits
\* with code 0 exactly when main() returned True.
C25_RunnerRetriesAndExitCode ==
    \A p \in Procs :
        LET f == frame[p]
            log == f.fetch_log
            failed(k) == log[k] \in {"False", "raised"}
            over == f.pc \in {"main_returned", "exited"}
        IN scenario = "test_runner" =>
           /\ f.calls = Len(log) /\ f.calls <= 3
           /\ \A k \in 1..(Len(log) - 1) : failed(k)
           /\ (over /\ f.outcome = "True") <=> (Len(log) > 0 /\ log[Len(log)] = "True")
           /\ \A k \in 1..Len(f.delays) : f.delays[k] = 5 * k
           /\ Len(f.delays) = Cardinality({k \in 1..Len(log) : failed(k) /\ k < 3})
           /\ (over /\ Len(log) = 3 /\ \A k \in 1..3 : failed(k)) => f.outcome = "False"
           /\ f.pc = "exited" => (f.exit_code = 0 <=> f.outcome = "True")

C25_Witness ==
    /\ frame["discovery"].pc = "exited"
    /\ frame["discovery"].fetch_log = <<"False", "raised", "False">>
    /\ frame["discovery"].delays = <<5, 10>>
    /\ frame["discovery"].exit_code = 1

\* C26: the upserts of a source of jurisdiction J never modify a court row of
\* another jurisdiction: a row whose type, status, address or contact_info
\* changes in a step belongs to the jurisdiction of the source whose
\* transaction commits in that step.
\* Violated: the conflict target is the name alone, so a candidate of another
\* jurisdiction that carries the name of an existing court overwrites it.
C26_UpsertLeavesOtherJurisdictionsAlone ==
    [][\A k \in DOMAIN courts :
          (\/ courts'[k].type # courts[k].type
           \/ courts'[k].status # courts[k].status
           \/ courts'[k].address # courts[k].address
           \/ courts'[k].contact_info # courts[k].contact_info)
          => \E p \in Procs :
                /\ frame[p].pc = "verify"
                /\ frame'[p].pc # "verify"
                /\ frame[p].sources[frame[p].i][2] = courts[k].jurisdiction_id]_vars

\* C27: the effects of process_court_source on the store are all or nothing.
\* A step that changes the courts table, the counters of a run row or the
\* last_checked of a source is the commit of one process_court_source call
\* and carries all of them: every upsert the call executed is in courts, the
\* run's counters grew by the call's counts and the source's last_checked is
\* the commit time; and a call that ends in an error leaves all three as
\* they were.
C27_SourceTransactionAtomic ==
    [][/\ (\/ courts' # courts
           \/ \E r \in DOMAIN inventory_updates :
                 \/ inventory_updates'[r].new_courts_found # inventory_updates[r].new_courts_found
                 \/ inventory_updates'[r].courts_updated # inventory_updates[r].courts_updated
           \/ \E s \in SourceIds :
                 court_sources'[s].last_checked # court_sources[s].last_checked)
          => \E p \in Procs :
                LET f == frame[p]
                    r == f.update_id
                IN /\ f.pc = "verify" /\ frame'[p].pc = "loop"
                   /\ frame'[p].outcome = "ok"
                   /\ \A k \in DOMAIN f.pending :
                         (\A later \in (k + 1)..Len(f.pending) :
                              f.pending[later].name # f.pending[k].name)
                         => \E c \in DOMAIN courts' :
                               /\ courts'[c].name = f.pending[k].name
                               /\ courts'[c].type = f.pending[k].type
                               /\ courts'[c].status = f.pending[k].status
                               /\ courts'[c].address = f.pending[k].address
                               /\ courts'[c].last_updated = now
                   /\ Len(courts') = Len(courts) + f.new_courts
                   /\ inventory_updates'[r].new_courts_found =
                         inventory_updates[r].new_courts_found + f.new_courts
                   /\ inventory_updates'[r].courts_updated =
                         inventory_updates[r].courts_updated + f.updated_courts
                   /\ court_sources'[f.source_id].last_checked = now
       /\ \A p \in Procs :
             (/\ frame[p].pc \in {"fetch", "verify"} /\ frame'[p].pc = "loop"
              /\ frame'[p].outcome # "ok")
             => /\ courts' = courts
                /\ court_sources' = court_sources
                /\ \A r \in DOMAIN inventory_updates :
                      /\ inventory_updates'[r].new_courts_found = inventory_updates[r].new_courts_found
                      /\ inventory_updates'[r].courts_updated = inventory_updates[r].courts_updated]_vars

\* one call committed an insert and an update together, and a later call of
\* the same run failed after executing an upsert
C27_Witness ==
    \E p \in Procs :
        /\ frame[p].pc = "loop"
        /\ frame[p].outcome = "store_error"
        /\ frame[p].total_new_courts = 1
        /\ frame[p].total_updated_courts = 1
        /\ Len(courts) = 2
        /\ inventory_updates[frame[p].update_id].new_courts_found = 1
        /\ inventory_updates[frame[p].update_id].courts_updated = 1

\* C28: in every row of inventory_updates written by initialize_inventory_run,
\* update_scraper_status or the stale-run reset, completed_at is non-null
\* exactly when the status is 'completed' or 'error'.
C28_CompletedAtIffTerminal ==
    \A r \in DOMAIN inventory_updates :
        (inventory_updates[r].completed_at # NoTime)
        <=> (inventory_updates[r].status \in {"completed", "error"})

\* a row all three writers have written: inserted as running, reset as
\* stalled (end_time set, completed_at set), then written again as running
\* by a progress update of the run, which put completed_at back to NULL
C28_Witness ==
    \E r \in DOMAIN inventory_updates :
        /\ inventory_updates[r].status = "running"
        /\ inventory_updates[r].end_time # NoTime
        /\ inventory_updates[r].total_sources >= 1
        /\ inventory_updates[r].completed_at = NoTime

C30_EveryScraperRunFinishes ==
    /\ [](\A p \in Procs :
            frame[p].pc = "scrape_returned"
            => /\ Len(scraper_status) = frame[p].rows_before + 1
               /\ \A k \in (frame[p].rows_before + 1)..Len(scraper_status) :
                     scraper_status[k].status \in {"completed", "error"})
    /\ \A k \in 1..(2 * MaxPresses) :
          [](k \in DOMAIN scraper_status
             => <>(/\ k \in DOMAIN scraper_status
                   /\ scraper_status[k].status \in {"completed", "error"}))

====
